---- MODULE Spec2Model ----
(***************************************************************************)
(* A state-machine model of graphzep: the ingestion pipeline               *)
(* (src/src/graphzep.ts), the node and edge upserts (src/src/core/nodes.ts,*)
(* src/unnamed/part_006), the sleep engine's three phases                  *)
(* (src/src/sleep/consolidator.ts, src/unnamed/part_004) and its           *)
(* scheduler (src/unnamed/part_002).                                       *)
(*                                                                         *)
(* The graph store is the variable db.  A Cypher statement is one atomic   *)
(* update of db.  Optional properties are sets with at most one element    *)
(* ({} is null).  Properties that no modelled code path reads or changes   *)
(* after creation (entityType, content, factIds, expiredAt, the edges'     *)
(* createdAt) are left out of the records.                                 *)
(***************************************************************************)
EXTENDS Integers, Sequences, FiniteSets, TLC

VARIABLES
  db,             \* the graph store
  nextUuid,       \* the next value uuidv4() returns
  now,            \* the clock
  ingested,       \* addEpisode calls made
  deleted,        \* deleteNode calls made
  slept,          \* direct sleep calls made
  lastOp,         \* what the last call was and, for a sleep, what it reported
  calls,          \* the addEpisode calls running concurrently
  step,           \* the addEpisode call run statement by statement
  autoSleepTimer, \* SleepEngine._autoSleepTimer: {} is null
  timers,         \* the timeouts set and neither fired nor cleared
  runs,           \* the sleep runs in flight
  sched,          \* counters of the scheduler's environment
  stopped,        \* stopAutoSleep has returned and startAutoSleep was not called since
  settled,        \* the scheduled runs settled so far and what the last callback did
  cycle,          \* the sleep() call run phase by phase
  applied         \* a pure function of the program applied to arguments: the result

graphVars == <<db, nextUuid, now, ingested, deleted, slept, lastOp>>
concVars == <<calls, step>>
schedVars == <<autoSleepTimer, timers, runs, sched, stopped, settled>>
sleepVars == <<cycle, applied>>
vars == <<graphVars, concVars, schedVars, sleepVars>>

----------------------------------------------------------------------------
(* Bounds of the model *)

MaxEpisodes == 2
MaxDeletes == 1
MaxExtracted == 2
MaxRelations == 1
MaxSleeps == 2
MaxSleepsWithDeletes == 1
MaxCommunities == 1
MaxStarts == 2
MaxDirectSleeps == 2
MaxFirings == 2
MaxAttempts == 2
MaxRelationCalls == 3
MaxCallRelations == 2
MaxClock == 3
MaxNodes == 3
MaxEdgeRows == 2
MaxResults == 3
MaxMembers == 5
MaxExisting == 2

(* Universes the inputs are drawn from *)

Groups == {"stm", "ltm"}

\* The groups the sleep engine is run on.
SleepTargets == {"stm"}

\* Entity names are sequences of characters.
NameAl == <<"A", "l">>
NameAlS == <<"A", "l", "S">>
NameBo == <<"B", "o">>
NameA == <<"A">>
Names == {NameAl, NameAlS, NameBo}

RelNames == {"KNOWS"}

\* The texts an LLM call can return as a summary.
Summaries == {"s1", "s2"}

\* Confidence values in tenths (0.4 and 1.0).
Confidences == {4, 10}

----------------------------------------------------------------------------
(* Program constants *)

ENTITY_CONFIDENCE_THRESHOLD == 5
RELATION_CONFIDENCE_THRESHOLD == 5

\* Defaults of the sleep options; the similarity threshold is in hundredths.
DEFAULT_MIN_EPISODES == 2
DEFAULT_MAX_ENTITIES == 50
DEFAULT_SIMILARITY_THRESHOLD == 88

\* Minutes in one unit of the clock (half a day).
TickMinutes == 720

\* The community options the callers of the model pass.
MinGraphSize == 2
MinCommunitySize == 2
RebuildThreshold == 1

----------------------------------------------------------------------------
(* Generic helpers *)

Range(s) == {s[i] : i \in 1..Len(s)}

Includes(s, x) == \E i \in 1..Len(s) : s[i] = x

SeqsUpTo(S, n) == UNION {[1..k -> S] : k \in 0..n}

Min(S) == CHOOSE x \in S : \A y \in S : x <= y

\* BaseEmbedderClient.embed: a deterministic map from a text to a vector.
Embed(text) == IF text = "s1" THEN <<1, 0>> ELSE <<1, 1>>

----------------------------------------------------------------------------
(* The store: node and edge upserts *)

EmptyDb ==
  [entities |-> {}, episodes |-> {}, relates |-> {}, mentions |-> {},
   communities |-> {}, hasMember |-> {}]

NodeUuids(d) ==
  {n.uuid : n \in d.entities} \cup {n.uuid : n \in d.episodes}
    \cup {n.uuid : n \in d.communities}

\* EntityNodeImpl.save: MERGE (n:Entity {uuid}) SET name, summary, groupId,
\* createdAt, summaryEmbedding.  Properties not named by SET are kept.
EntitySave(d, node) ==
  LET old == {e \in d.entities : e.uuid = node.uuid}
      kept == IF old = {} THEN {} ELSE (CHOOSE e \in old : TRUE).consolidatedAt
      stored == [uuid |-> node.uuid, name |-> node.name, groupId |-> node.groupId,
                 summary |-> node.summary,
                 summaryEmbedding |-> node.summaryEmbedding,
                 createdAt |-> node.createdAt, consolidatedAt |-> kept]
  IN [d EXCEPT !.entities = (@ \ old) \cup {stored}]

\* EpisodicNodeImpl.save: MERGE (n:Episodic {uuid}) SET groupId, createdAt,
\* validAt.  retroactiveDays and disputedBy are not among the saved properties.
EpisodeSave(d, node) ==
  LET old == {e \in d.episodes : e.uuid = node.uuid}
      o == CHOOSE e \in old : TRUE
      stored == [uuid |-> node.uuid, groupId |-> node.groupId,
                 createdAt |-> node.createdAt, validAt |-> node.validAt,
                 disputedBy |-> IF old = {} THEN <<>> ELSE o.disputedBy,
                 consolidatedAt |-> IF old = {} THEN {} ELSE o.consolidatedAt]
  IN [d EXCEPT !.episodes = (@ \ old) \cup {stored}]

HasEntity(d, u) == \E e \in d.entities : e.uuid = u
HasEpisode(d, u) == \E e \in d.episodes : e.uuid = u

\* A faulty save: it writes null for invalidAt whatever the edge holds.
EntityEdgeSaveNeverInvalid(d, edge) ==
  IF HasEntity(d, edge.src) /\ HasEntity(d, edge.tgt)
  THEN [d EXCEPT !.relates = {r \in @ : r.uuid # edge.uuid}
                               \cup {[edge EXCEPT !.invalidAt = {}]}]
  ELSE d

\* EntityEdgeImpl.save: MATCH both endpoints as Entity nodes, MERGE the
\* RELATES_TO edge with this uuid between them, SET every property.
EntityEdgeSave(d, edge) ==
  IF HasEntity(d, edge.src) /\ HasEntity(d, edge.tgt)
  THEN LET old == {r \in d.relates :
                     r.uuid = edge.uuid /\ r.src = edge.src /\ r.tgt = edge.tgt}
       IN [d EXCEPT !.relates = (@ \ old) \cup {edge}]
  ELSE d

\* EpisodicEdgeImpl.save: MATCH the Episodic source and the Entity target,
\* MERGE the MENTIONS edge with this uuid between them.
EpisodicEdgeSave(d, edge) ==
  IF HasEpisode(d, edge.src) /\ HasEntity(d, edge.tgt)
  THEN LET old == {r \in d.mentions :
                     r.uuid = edge.uuid /\ r.src = edge.src /\ r.tgt = edge.tgt}
       IN [d EXCEPT !.mentions = (@ \ old) \cup {edge}]
  ELSE d

\* A faulty delete: the node goes, its edges stay.
NodeDeleteKeepEdges(d, u) ==
  [d EXCEPT !.entities = {e \in @ : e.uuid # u},
            !.episodes = {e \in @ : e.uuid # u},
            !.communities = {c \in @ : c.uuid # u}]

\* Node.delete: MATCH (n:Entity|Episodic|Community {uuid}) DETACH DELETE n.
NodeDelete(d, u) ==
  [entities |-> {e \in d.entities : e.uuid # u},
   episodes |-> {e \in d.episodes : e.uuid # u},
   communities |-> {c \in d.communities : c.uuid # u},
   relates |-> {r \in d.relates : r.src # u /\ r.tgt # u},
   mentions |-> {r \in d.mentions : r.src # u /\ r.tgt # u},
   hasMember |-> {r \in d.hasMember : r.src # u /\ r.tgt # u}]

----------------------------------------------------------------------------
(* Ingestion: Graphzep.addEpisode and its helpers *)

\* What the extraction LLM call can return.  An entity's summary stands for
\* the text the LLM produces for it in this call: the extracted summary when
\* the entity is new, the merged summary when it exists (only one of the two
\* is used for any entity).
ExtractedEntities == [name : Names, summary : Summaries, confidence : Confidences]

ExtractedRelations ==
  [sourceName : Names, targetName : Names, relationName : RelNames,
   confidence : Confidences, isNegated : BOOLEAN,
   temporalValidity : {"current", "historical"}]

\* The order in which an extraction lists the names.
NameIndex(n) == IF n = NameAl THEN 1 ELSE IF n = NameAlS THEN 2 ELSE 3

LowConfidence(x) ==
  Cardinality({i \in 1..Len(x.entities) :
                 x.entities[i].confidence < ENTITY_CONFIDENCE_THRESHOLD})
  + Cardinality({i \in 1..Len(x.relations) :
                   x.relations[i].confidence < RELATION_CONFIDENCE_THRESHOLD})

\* The extractions drawn as inputs: distinct names in a fixed order with one
\* summary text for all of them, relations between two different extracted
\* names, at most one item of low confidence.
Extractions ==
  {x \in [entities : SeqsUpTo(ExtractedEntities, MaxExtracted),
          relations : SeqsUpTo(ExtractedRelations, MaxRelations)] :
     /\ \A i, j \in 1..Len(x.entities) :
          i < j => /\ NameIndex(x.entities[i].name) < NameIndex(x.entities[j].name)
                   /\ x.entities[i].summary = x.entities[j].summary
     /\ \A i \in 1..Len(x.relations) :
          /\ \E j \in 1..Len(x.entities) : x.entities[j].name = x.relations[i].sourceName
          /\ \E j \in 1..Len(x.entities) : x.entities[j].name = x.relations[i].targetName
          /\ x.relations[i].sourceName # x.relations[i].targetName
     /\ LowConfidence(x) <= 1}

\* The in-memory EntityNodeImpl built from a stored node's properties.
EntityObject(e) ==
  [uuid |-> e.uuid, name |-> e.name, groupId |-> e.groupId, summary |-> e.summary,
   summaryEmbedding |-> e.summaryEmbedding, createdAt |-> e.createdAt]

\* A faulty lookup: it sees only the nodes a sleep cycle has refreshed.
findExistingEntityConsolidated(d, name, g) ==
  LET m == {e \in d.entities : e.name = name /\ e.groupId = g /\ e.consolidatedAt # {}}
  IN IF m = {} THEN {}
     ELSE {EntityObject(CHOOSE e \in m : \A o \in m : e.uuid <= o.uuid)}

\* MATCH (n:Entity {name, groupId}) RETURN n LIMIT 1: the result as a set with
\* at most one element.
findExistingEntity(d, name, g) ==
  LET m == {e \in d.entities : e.name = name /\ e.groupId = g}
  IN IF m = {} THEN {}
     ELSE {EntityObject(CHOOSE e \in m : \A o \in m : e.uuid <= o.uuid)}

\* The branch of processExtractedEntities for an entity that exists: merge the
\* summaries with the LLM, re-embed, save.
MergeExisting(existing, entity) ==
  [existing EXCEPT !.summary = entity.summary,
                   !.summaryEmbedding = Embed(entity.summary)]

\* The branch for an entity that does not exist: a new node with a new uuid.
NewEntity(uuid, entity, g, t) ==
  [uuid |-> uuid, name |-> entity.name, groupId |-> g, summary |-> entity.summary,
   summaryEmbedding |-> Embed(entity.summary), createdAt |-> t]

\* The state threaded through the pipeline: the store and the next fresh uuid.
RECURSIVE processEntitiesFrom(_, _, _, _, _, _)
processEntitiesFrom(S, ents, i, g, t, acc) ==
  IF i > Len(ents) THEN [S |-> S, nodes |-> acc]
  ELSE LET existing == findExistingEntity(S.db, ents[i].name, g)
       IN IF existing # {}
          THEN LET node == MergeExisting(CHOOSE e \in existing : TRUE, ents[i])
               IN processEntitiesFrom([S EXCEPT !.db = EntitySave(@, node)],
                                      ents, i + 1, g, t, Append(acc, node))
          ELSE LET node == NewEntity(S.next, ents[i], g, t)
               IN processEntitiesFrom([db |-> EntitySave(S.db, node), next |-> S.next + 1],
                                      ents, i + 1, g, t, Append(acc, node))

processExtractedEntities(S, entities, g, t) ==
  processEntitiesFrom(
    S, SelectSeq(entities, LAMBDA e : e.confidence >= ENTITY_CONFIDENCE_THRESHOLD),
    1, g, t, <<>>)

RECURSIVE linkEpisodeToEntities(_, _, _, _)
linkEpisodeToEntities(S, episode, entities, i) ==
  IF i > Len(entities) THEN S
  ELSE LET edge == [uuid |-> S.next, groupId |-> episode.groupId,
                    src |-> episode.uuid, tgt |-> entities[i].uuid]
       IN linkEpisodeToEntities(
            [db |-> EpisodicEdgeSave(S.db, edge), next |-> S.next + 1],
            episode, entities, i + 1)

\* new Map(entities.map(e => [e.name, e])).get(name): the last entry wins.
entityMapGet(entities, name) ==
  LET idx == {i \in 1..Len(entities) : entities[i].name = name}
  IN IF idx = {} THEN {} ELSE {entities[CHOOSE i \in idx : \A j \in idx : j <= i]}

\* A faulty lookup: the edge it returns has lost its invalidAt.
findExistingRelationLosingInvalidAt(d, sourceUuid, targetUuid, relationName) ==
  LET m == {r \in d.relates : /\ r.src = sourceUuid /\ r.tgt = targetUuid
                              /\ r.name = relationName
                              /\ HasEntity(d, r.src) /\ HasEntity(d, r.tgt)}
  IN IF m = {} THEN {}
     ELSE {[(CHOOSE r \in m : \A o \in m : r.uuid <= o.uuid)
              EXCEPT !.disputedBy = <<>>, !.invalidAt = {}]}

\* A faulty lookup: it sees only the edges that are not invalidated.
findExistingRelationActive(d, sourceUuid, targetUuid, relationName) ==
  LET m == {r \in d.relates : /\ r.src = sourceUuid /\ r.tgt = targetUuid
                              /\ r.name = relationName /\ r.invalidAt = {}
                              /\ HasEntity(d, r.src) /\ HasEntity(d, r.tgt)}
  IN IF m = {} THEN {}
     ELSE {[(CHOOSE r \in m : \A o \in m : r.uuid <= o.uuid) EXCEPT !.disputedBy = <<>>]}

\* MATCH (s:Entity {uuid})-[r:RELATES_TO {name}]->(t:Entity {uuid}) RETURN r
\* LIMIT 1.  The EntityEdgeImpl built from the row has no disputedBy.
findExistingRelation(d, sourceUuid, targetUuid, relationName) ==
  LET m == {r \in d.relates : /\ r.src = sourceUuid /\ r.tgt = targetUuid
                              /\ r.name = relationName
                              /\ HasEntity(d, r.src) /\ HasEntity(d, r.tgt)}
  IN IF m = {} THEN {}
     ELSE {[(CHOOSE r \in m : \A o \in m : r.uuid <= o.uuid) EXCEPT !.disputedBy = <<>>]}

EntityGroup(d, u) == (CHOOSE e \in d.entities : e.uuid = u).groupId

\* A faulty conflict resolution: it marks the new episode as disputed by itself
\* whether or not it finds an edge.
resolveConflictMarkingEpisode(d, source, target, relationName, newEpisodeUuid, g) ==
  [d EXCEPT !.episodes =
     {IF n.uuid = newEpisodeUuid THEN [n EXCEPT !.disputedBy = <<newEpisodeUuid>>]
      ELSE n : n \in @}]

\* A faulty conflict resolution: it deletes the edges the negation contradicts.
resolveConflictDeleting(d, source, target, relationName, newEpisodeUuid, g) ==
  [d EXCEPT !.relates =
     {r \in @ : ~ (r.src = source.uuid /\ r.tgt = target.uuid /\ r.name = relationName)}]

\* Graphzep._resolveConflict: find the active positive edge, add the new episode
\* to its disputedBy, set the new episode's disputedBy to the edge's episodes.
resolveConflict(d, source, target, relationName, newEpisodeUuid, g) ==
  LET m == {r \in d.relates :
              /\ r.src = source.uuid /\ r.tgt = target.uuid /\ r.name = relationName
              /\ HasEntity(d, r.src) /\ EntityGroup(d, r.src) = g
              /\ HasEntity(d, r.tgt) /\ EntityGroup(d, r.tgt) = g
              /\ r.invalidAt = {}}
  IN IF m = {} THEN d
     ELSE LET e == CHOOSE r \in m : \A o \in m : r.uuid <= o.uuid
              edgeDisputedBy == IF Includes(e.disputedBy, newEpisodeUuid)
                                THEN e.disputedBy
                                ELSE Append(e.disputedBy, newEpisodeUuid)
              d1 == [d EXCEPT !.relates =
                       {IF r.uuid = e.uuid THEN [r EXCEPT !.disputedBy = edgeDisputedBy]
                        ELSE r : r \in @}]
          IN IF Len(e.episodes) > 0
             THEN [d1 EXCEPT !.episodes =
                     {IF n.uuid = newEpisodeUuid THEN [n EXCEPT !.disputedBy = e.episodes]
                      ELSE n : n \in @}]
             ELSE d1

\* The body of the loop of processExtractedRelations for one relation.
processRelation(S, relation, entities, g, episodeUuid, t) ==
  LET source == entityMapGet(entities, relation.sourceName)
      target == entityMapGet(entities, relation.targetName)
      src == CHOOSE e \in source : TRUE
      tgt == CHOOSE e \in target : TRUE
  IN IF relation.confidence < RELATION_CONFIDENCE_THRESHOLD THEN S
     ELSE IF source = {} \/ target = {} THEN S
     ELSE IF relation.isNegated
     THEN [S EXCEPT !.db = resolveConflict(@, src, tgt, relation.relationName, episodeUuid, g)]
     ELSE LET existingEdge == findExistingRelation(S.db, src.uuid, tgt.uuid, relation.relationName)
              ex == CHOOSE e \in existingEdge : TRUE
          IN IF existingEdge # {} /\ relation.temporalValidity = "historical"
             THEN IF ex.invalidAt = {}
                  THEN [S EXCEPT !.db = EntityEdgeSave(@, [ex EXCEPT !.invalidAt = {t}])]
                  ELSE S
             ELSE IF existingEdge # {}
             THEN [S EXCEPT !.db = EntityEdgeSave(@,
                     [ex EXCEPT !.episodes = IF Includes(@, episodeUuid) THEN @
                                             ELSE Append(@, episodeUuid),
                                !.validAt = t])]
             ELSE [db |-> EntityEdgeSave(S.db,
                     [uuid |-> S.next, groupId |-> g, src |-> src.uuid, tgt |-> tgt.uuid,
                      name |-> relation.relationName, episodes |-> <<episodeUuid>>,
                      validAt |-> t,
                      invalidAt |-> IF relation.temporalValidity = "historical" THEN {t} ELSE {},
                      disputedBy |-> <<>>]),
                   next |-> S.next + 1]

RECURSIVE processExtractedRelations(_, _, _, _, _, _, _)
processExtractedRelations(S, relations, i, entities, g, episodeUuid, t) ==
  IF i > Len(relations) THEN S
  ELSE processExtractedRelations(
         processRelation(S, relations[i], entities, g, episodeUuid, t),
         relations, i + 1, entities, g, episodeUuid, t)

\* The retroactiveDays addEpisode computes: Math.max(0, Math.round((createdAt -
\* validAt) / 86_400_000)), the times in units of the clock.  Math.round rounds
\* a half up, and a day has 1440 minutes.
retroactiveDays(createdAt, validAt) ==
  LET minutes == (createdAt - validAt) * TickMinutes
      rounded == (2 * minutes + 1440) \div 2880
  IN IF rounded > 0 THEN rounded ELSE 0

\* The EpisodicNodeImpl that addEpisode creates; validAt defaults to createdAt.
NewEpisode(uuid, g, validAt, t) ==
  [uuid |-> uuid, groupId |-> g, createdAt |-> t, validAt |-> validAt]

\* Graphzep.addEpisode, from the episode's save to the last relation.
addEpisode(S, g, validAt, x, t) ==
  LET episodicNode == NewEpisode(S.next, g, validAt, t)
      S1 == [db |-> EpisodeSave(S.db, episodicNode), next |-> S.next + 1]
      r == processExtractedEntities(S1, x.entities, g, t)
      S2 == linkEpisodeToEntities(r.S, episodicNode, r.nodes, 1)
  IN processExtractedRelations(S2, x.relations, 1, r.nodes, g, episodicNode.uuid, t)

----------------------------------------------------------------------------
(* Sleep engine, Phase 1: Consolidator.run *)

Mentions(d, ep, e) == \E r \in d.mentions : r.src = ep /\ r.tgt = e

\* Consolidator.fetchEntityClusters, before ORDER BY and LIMIT: for every entity
\* of the group the unconsolidated episodes of the group that mention it and are
\* older than the cooldown, kept when there are at least minEpisodes of them.
EntityClusters(d, g, cooldownMinutes, minEpisodes, t) ==
  LET eps(e) == {ep.uuid : ep \in {n \in d.episodes :
                    /\ n.groupId = g
                    /\ Mentions(d, n.uuid, e.uuid)
                    /\ n.consolidatedAt = {}
                    /\ n.createdAt * TickMinutes <= t * TickMinutes - cooldownMinutes}}
  IN {[uuid |-> e.uuid, name |-> e.name, episodeUuids |-> eps(e)] :
        e \in {n \in d.entities : n.groupId = g /\ Cardinality(eps(n)) >= minEpisodes}}

\* ORDER BY size(episodeUuids) DESC LIMIT maxEntities.
fetchEntityClusters(d, g, cooldownMinutes, minEpisodes, maxEntities, t) ==
  LET all == EntityClusters(d, g, cooldownMinutes, minEpisodes, t)
  IN IF Cardinality(all) <= maxEntities THEN all
     ELSE CHOOSE top \in SUBSET all :
            /\ Cardinality(top) = maxEntities
            /\ \A a \in top, b \in all \ top :
                 Cardinality(a.episodeUuids) >= Cardinality(b.episodeUuids)

\* Consolidator.updateEntity: MATCH (e:Entity {uuid}) SET summary, embedding,
\* consolidatedAt.
updateEntity(d, uuid, newSummary, embedding, t) ==
  [d EXCEPT !.entities =
     {IF e.uuid = uuid
      THEN [e EXCEPT !.summary = newSummary, !.summaryEmbedding = embedding,
                     !.consolidatedAt = {t}]
      ELSE e : e \in @}]

\* A faulty markConsolidated: it removes the episodes it should mark.
markConsolidatedRemoving(d, episodeUuids, t) ==
  [d EXCEPT !.episodes = {ep \in @ : ep.uuid \notin episodeUuids}]

\* Consolidator.markConsolidated.
markConsolidated(d, episodeUuids, t) ==
  [d EXCEPT !.episodes =
     {IF ep.uuid \in episodeUuids THEN [ep EXCEPT !.consolidatedAt = {t}] ELSE ep :
        ep \in @}]

\* What the LLM and the embedder do for one cluster of a run.
ClusterOutcomes == {"ok", "llmFails", "embedFails"}

\* A faulty loop: the first failing call ends the run.
RECURSIVE consolidateClustersStopping(_, _, _, _, _, _, _)
consolidateClustersStopping(d, todo, options, outcome, newSummary, t, report) ==
  IF todo = {} THEN [db |-> d, report |-> report]
  ELSE LET cluster == CHOOSE c \in todo : \A o \in todo : c.uuid <= o.uuid
           rest == todo \ {cluster}
           counted == [entitiesRefreshed |-> report.entitiesRefreshed + 1,
                       episodesConsolidated |->
                         report.episodesConsolidated + Cardinality(cluster.episodeUuids)]
       IN IF outcome[cluster.uuid] = "llmFails"
          THEN [db |-> d, report |-> report]
          ELSE IF options.dryRun
          THEN consolidateClustersStopping(d, rest, options, outcome, newSummary, t, counted)
          ELSE IF outcome[cluster.uuid] = "embedFails"
          THEN [db |-> d, report |-> report]
          ELSE consolidateClustersStopping(
                 markConsolidated(updateEntity(d, cluster.uuid, newSummary,
                                               Embed(newSummary), t),
                                  cluster.episodeUuids, t),
                 rest, options, outcome, newSummary, t, counted)

\* The loop of Consolidator.run over the clusters still to process.
RECURSIVE consolidateClusters(_, _, _, _, _, _, _)
consolidateClusters(d, todo, options, outcome, newSummary, t, report) ==
  IF todo = {} THEN [db |-> d, report |-> report]
  ELSE LET cluster == CHOOSE c \in todo : \A o \in todo : c.uuid <= o.uuid
           rest == todo \ {cluster}
           counted == [entitiesRefreshed |-> report.entitiesRefreshed + 1,
                       episodesConsolidated |->
                         report.episodesConsolidated + Cardinality(cluster.episodeUuids)]
       IN IF outcome[cluster.uuid] = "llmFails"
          THEN consolidateClusters(d, rest, options, outcome, newSummary, t, report)
          ELSE IF options.dryRun
          THEN consolidateClusters(d, rest, options, outcome, newSummary, t, counted)
          ELSE IF outcome[cluster.uuid] = "embedFails"
          THEN consolidateClusters(d, rest, options, outcome, newSummary, t, report)
          ELSE CHOOSE r \in
                 {consolidateClusters(d1, rest, options, outcome, newSummary, t, counted) :
                    d1 \in {markConsolidated(
                              updateEntity(d, cluster.uuid, newSummary,
                                           Embed(newSummary), t),
                              cluster.episodeUuids, t)}} : TRUE

EmptyConsolidationReport == [entitiesRefreshed |-> 0, episodesConsolidated |-> 0]

\* Consolidator.run.
ConsolidatorRun(d, g, options, outcome, newSummary, t) ==
  CHOOSE r \in
    {consolidateClusters(d, clusters, options, outcome, newSummary, t,
                         EmptyConsolidationReport) :
       clusters \in {fetchEntityClusters(d, g, options.cooldownMinutes,
                                         options.minEpisodes, options.maxEntities, t)}} :
    TRUE

----------------------------------------------------------------------------
(* Sleep engine, Phase 2: Pruner.run *)

ToLowerChar(c) ==
  CASE c = "A" -> "a" [] c = "B" -> "b" [] c = "S" -> "s" [] OTHER -> c

toLower(name) == [i \in 1..Len(name) |-> ToLowerChar(name[i])]

\* Cypher's a CONTAINS b on strings.
Contains(a, b) ==
  \E k \in 0..(Len(a) - Len(b)) : \A i \in 1..Len(b) : a[k + i] = b[i]

\* size([(a)-[:RELATES_TO|MENTIONS]-() | 1]).
Degree(d, u) ==
  Cardinality({r \in d.relates : r.src = u}) + Cardinality({r \in d.relates : r.tgt = u})
  + Cardinality({r \in d.mentions : r.tgt = u})

\* Pruner.fetchCandidatePairs.
fetchCandidatePairs(d, g) ==
  {[uuidA |-> a.uuid, nameA |-> a.name, embA |-> a.summaryEmbedding,
    degreeA |-> Degree(d, a.uuid),
    uuidB |-> b.uuid, nameB |-> b.name, embB |-> b.summaryEmbedding,
    degreeB |-> Degree(d, b.uuid)] :
     <<a, b>> \in {p \in d.entities \X d.entities :
        /\ p[1].groupId = g /\ p[2].groupId = g
        /\ p[1].uuid < p[2].uuid
        /\ p[1].name # p[2].name
        /\ \/ Contains(toLower(p[1].name), toLower(p[2].name))
           \/ Contains(toLower(p[2].name), toLower(p[1].name))}}

\* A similarity s is kept as the fraction num/den of s * |s|, so that
\* comparisons are exact.
RECURSIVE DotFrom(_, _, _)
DotFrom(a, b, i) == IF i > Len(a) THEN 0 ELSE a[i] * b[i] + DotFrom(a, b, i + 1)

Dot(a, b) == DotFrom(a, b, 1)

\* cosineSimilarity: dot / (sqrt(magA) * sqrt(magB)), as the signed square.
cosineSimilarity(a, b) ==
  IF Len(a) # Len(b) \/ Len(a) = 0 \/ Dot(a, a) * Dot(b, b) = 0
  THEN [num |-> 0, den |-> 1]
  ELSE [num |-> IF Dot(a, b) >= 0 THEN Dot(a, b) * Dot(a, b) ELSE 0 - Dot(a, b) * Dot(a, b),
        den |-> Dot(a, a) * Dot(b, b)]

SimGE(s, r) == s.num * r.den >= r.num * s.den

\* A number of hundredths as a similarity.
Percent(p) == [num |-> p * p, den |-> 10000]

\* The embedding-less branch of scorePairs: shorter.length / longer.length.
NameRatio(c) ==
  LET shorter == IF Len(c.nameA) < Len(c.nameB) THEN c.nameA ELSE c.nameB
      longer == IF Len(c.nameA) >= Len(c.nameB) THEN c.nameA ELSE c.nameB
  IN [num |-> Len(shorter) * Len(shorter), den |-> Len(longer) * Len(longer)]

PairSimilarity(c) ==
  IF c.embA # <<>> /\ c.embB # <<>> THEN cosineSimilarity(c.embA, c.embB)
  ELSE NameRatio(c)

\* Pruner.scorePairs, before the sort: the pairs kept, each with its similarity
\* and its canonical and duplicate nodes.
ScoredPairs(candidates, threshold) ==
  {LET canonicalIsA == \/ c.degreeA > c.degreeB
                       \/ (c.degreeA = c.degreeB /\ Len(c.nameA) >= Len(c.nameB))
   IN [similarity |-> PairSimilarity(c),
       canonicalUuid |-> IF canonicalIsA THEN c.uuidA ELSE c.uuidB,
       duplicateUuid |-> IF canonicalIsA THEN c.uuidB ELSE c.uuidA] :
     c \in {k \in candidates :
              /\ (k.embA = <<>> \/ k.embB = <<>>) => SimGE(NameRatio(k), Percent(60))
              /\ SimGE(PairSimilarity(k), Percent(threshold))}}

\* The orders scored.sort((a, b) => b.similarity - a.similarity) can produce:
\* descending similarity, pairs of equal similarity in the order of the rows.
SortedOrders(scored) ==
  {order \in [1..Cardinality(scored) -> scored] :
     /\ \A i, j \in 1..Cardinality(scored) : i # j => order[i] # order[j]
     /\ \A i, j \in 1..Cardinality(scored) :
          i < j => SimGE(order[i].similarity, order[j].similarity)}

IsEntityOf(d, u, g) == \E e \in d.entities : e.uuid = u /\ e.groupId = g
IsEpisodeOf(d, u, g) == \E e \in d.episodes : e.uuid = u /\ e.groupId = g

\* MERGE (a)-[newR:RELATES_TO {uuid: r.uuid}]->(b) SET the copied properties;
\* disputedBy is not among them.
RedirectedEdge(d, r, a, b) ==
  LET old == {o \in d.relates : o.uuid = r.uuid /\ o.src = a /\ o.tgt = b}
  IN [uuid |-> r.uuid, groupId |-> r.groupId, src |-> a, tgt |-> b, name |-> r.name,
      episodes |-> r.episodes, validAt |-> r.validAt, invalidAt |-> r.invalidAt,
      disputedBy |-> IF old = {} THEN <<>> ELSE (CHOOSE o \in old : TRUE).disputedBy]

\* Step 1 of mergeEntities: outgoing RELATES_TO of the duplicate.
mergeOutgoing(d, canonicalUuid, duplicateUuid, g) ==
  LET rs == {r \in d.relates :
               /\ r.src = duplicateUuid /\ HasEntity(d, duplicateUuid)
               /\ IsEntityOf(d, r.tgt, g) /\ r.tgt # canonicalUuid
               /\ HasEntity(d, canonicalUuid)}
      new == {RedirectedEdge(d, r, canonicalUuid, r.tgt) : r \in rs}
  IN [d EXCEPT !.relates =
        {o \in @ : ~ \E n \in new : o.uuid = n.uuid /\ o.src = n.src /\ o.tgt = n.tgt}
        \cup new]

\* Step 2: incoming RELATES_TO of the duplicate.
mergeIncoming(d, canonicalUuid, duplicateUuid, g) ==
  LET rs == {r \in d.relates :
               /\ r.tgt = duplicateUuid /\ HasEntity(d, duplicateUuid)
               /\ IsEntityOf(d, r.src, g) /\ r.src # canonicalUuid
               /\ HasEntity(d, canonicalUuid)}
      new == {RedirectedEdge(d, r, r.src, canonicalUuid) : r \in rs}
  IN [d EXCEPT !.relates =
        {o \in @ : ~ \E n \in new : o.uuid = n.uuid /\ o.src = n.src /\ o.tgt = n.tgt}
        \cup new]

\* Step 3: MENTIONS of the duplicate move to the canonical node.
mergeMentions(d, canonicalUuid, duplicateUuid, g) ==
  LET rs == {r \in d.mentions :
               /\ r.tgt = duplicateUuid /\ HasEntity(d, duplicateUuid)
               /\ IsEpisodeOf(d, r.src, g) /\ HasEntity(d, canonicalUuid)}
      new == {[uuid |-> r.uuid, groupId |-> r.groupId, src |-> r.src,
               tgt |-> canonicalUuid] : r \in rs}
  IN [d EXCEPT !.mentions =
        {o \in @ \ rs :
           ~ \E n \in new : o.uuid = n.uuid /\ o.src = n.src /\ o.tgt = n.tgt}
        \cup new]

\* Step 4: MATCH (dup:Entity {uuid}) DETACH DELETE dup.
deleteDuplicate(d, duplicateUuid) ==
  IF HasEntity(d, duplicateUuid) THEN NodeDelete(d, duplicateUuid) ELSE d

\* A faulty merge: the duplicate is deleted and nothing is redirected.
mergeEntitiesDeletingOnly(d, canonicalUuid, duplicateUuid, g) ==
  deleteDuplicate(d, duplicateUuid)

\* Pruner.mergeEntities: the four statements one after the other, each on the
\* store the one before left.
mergeEntities(d, canonicalUuid, duplicateUuid, g) ==
  CHOOSE after \in
    {deleteDuplicate(d3, duplicateUuid) :
       d3 \in {mergeMentions(d2, canonicalUuid, duplicateUuid, g) :
         d2 \in {mergeIncoming(d1, canonicalUuid, duplicateUuid, g) :
           d1 \in {mergeOutgoing(d, canonicalUuid, duplicateUuid, g)}}}} : TRUE

\* Pruner.pruneOrphanedEdges: the rows are grouped by r, so the total returned
\* in the first row is 1 when any edge was deleted.
pruneOrphanedEdges(d, g) ==
  LET orphans == {r \in d.relates : r.groupId = g /\ Len(r.episodes) = 0}
  IN [db |-> [d EXCEPT !.relates = @ \ orphans],
      total |-> IF orphans = {} THEN 0 ELSE 1]

\* A faulty greedy loop: it skips no pair.
RECURSIVE mergeGreedyNeverSkipping(_, _, _, _, _, _, _)
mergeGreedyNeverSkipping(d, order, i, g, dryRun, alreadyMerged, merged) ==
  IF i > Len(order) THEN [db |-> d, entitiesMerged |-> merged]
  ELSE CHOOSE r \in
         {mergeGreedyNeverSkipping(d1, order, i + 1, g, dryRun, alreadyMerged,
                                   merged + 1) :
            d1 \in {IF dryRun THEN d
                    ELSE mergeEntities(d, order[i].canonicalUuid,
                                       order[i].duplicateUuid, g)}} : TRUE

\* The greedy loop of Pruner.run over the sorted pairs.
RECURSIVE mergeGreedy(_, _, _, _, _, _, _)
mergeGreedy(d, order, i, g, dryRun, alreadyMerged, merged) ==
  IF i > Len(order) THEN [db |-> d, entitiesMerged |-> merged]
  ELSE LET pair == order[i]
       IN IF pair.canonicalUuid \in alreadyMerged \/ pair.duplicateUuid \in alreadyMerged
          THEN mergeGreedy(d, order, i + 1, g, dryRun, alreadyMerged, merged)
          ELSE CHOOSE r \in
                 {mergeGreedy(d1, order, i + 1, g, dryRun,
                              alreadyMerged \cup {pair.duplicateUuid}, merged + 1) :
                    d1 \in {IF dryRun THEN d
                            ELSE mergeEntities(d, pair.canonicalUuid,
                                               pair.duplicateUuid, g)}} : TRUE

\* A faulty Pruner.run: it merges in a dry run too.
PrunerRunIgnoringDryRun(d, g, options, order) ==
  CHOOSE r \in
    {[db |-> a.db, report |-> [entitiesMerged |-> a.entitiesMerged, edgesPruned |-> 0]] :
       a \in {mergeGreedy(d, order, 1, g, FALSE, {}, 0)}} : TRUE

\* Pruner.run, given the order the sort produced.
PrunerRun(d, g, options, order) ==
  CHOOSE r \in
    {[db |-> ab[2].db,
      report |-> [entitiesMerged |-> ab[1].entitiesMerged, edgesPruned |-> ab[2].total]] :
       ab \in {<<a, IF options.dryRun THEN [db |-> a.db, total |-> 0]
                    ELSE pruneOrphanedEdges(a.db, g)>> :
         a \in {mergeGreedy(d, order, 1, g, options.dryRun, {}, 0)}}} : TRUE

PrunerOrders(d, g, options) ==
  SortedOrders(ScoredPairs(fetchCandidatePairs(d, g), options.similarityThreshold))

----------------------------------------------------------------------------
(* Sleep engine, Phase 3: CommunityBuilder.run *)

\* The rows of S in the order of their rank.
Sorted(S, rank) ==
  CHOOSE q \in [1..Cardinality(S) -> S] :
    /\ \A i, j \in 1..Cardinality(S) : i # j => q[i] # q[j]
    /\ \A i, j \in 1..Cardinality(S) : i < j => rank[q[i]] <= rank[q[j]]

\* MATCH (e:Entity {groupId}) ... ORDER BY e.createdAt DESC, as uuids; rows of
\* equal createdAt come in uuid order.
EntityRows(d, g) ==
  LET S == {e \in d.entities : e.groupId = g}
      Before(a, b) == \/ a.createdAt > b.createdAt
                      \/ (a.createdAt = b.createdAt /\ a.uuid < b.uuid)
      rows == Sorted(S, [e \in S |-> Cardinality({o \in S : Before(o, e)})])
  IN [i \in 1..Len(rows) |-> rows[i].uuid]

\* MATCH (a:Entity {groupId})-[:RELATES_TO]->(b:Entity {groupId}); the rows come
\* in the order of the edges' uuids.
EdgeRows(d, g) ==
  LET S == {r \in d.relates : IsEntityOf(d, r.src, g) /\ IsEntityOf(d, r.tgt, g)}
      rows == Sorted(S, [r \in S |-> r.uuid])
  IN [i \in 1..Len(rows) |-> [source |-> rows[i].src, target |-> rows[i].tgt]]

\* The rows runLouvain counts: both ends known, no self-loop.
Counted(entities, edges) ==
  {i \in 1..Len(edges) :
     /\ Includes(entities, edges[i].source) /\ Includes(entities, edges[i].target)
     /\ edges[i].source # edges[i].target}

\* adj.get(u).get(v).
Weight(entities, edges, u, v) ==
  Cardinality({i \in Counted(entities, edges) :
                 {edges[i].source, edges[i].target} = {u, v}})

\* degree.get(u).
LouvainDegree(entities, edges, u) ==
  Cardinality({i \in Counted(entities, edges) :
                 edges[i].source = u \/ edges[i].target = u})

\* The keys of adj.get(u), in insertion order.
RECURSIVE Neighbors(_, _, _, _, _)
Neighbors(entities, edges, u, i, acc) ==
  IF i > Len(edges) THEN acc
  ELSE LET other == IF edges[i].source = u THEN edges[i].target ELSE edges[i].source
       IN IF /\ i \in Counted(entities, edges)
             /\ (edges[i].source = u \/ edges[i].target = u)
             /\ ~ Includes(acc, other)
          THEN Neighbors(entities, edges, u, i + 1, Append(acc, other))
          ELSE Neighbors(entities, edges, u, i + 1, acc)

\* The keys of neighborComms, in insertion order.
RECURSIVE NeighborComms(_, _, _, _, _)
NeighborComms(neighbors, assignments, currentComm, i, acc) ==
  IF i > Len(neighbors) THEN acc
  ELSE LET nc == assignments[neighbors[i]]
       IN IF nc # currentComm /\ ~ Includes(acc, nc)
          THEN NeighborComms(neighbors, assignments, currentComm, i + 1, Append(acc, nc))
          ELSE NeighborComms(neighbors, assignments, currentComm, i + 1, acc)

\* The loop that picks the best move.  Deltas are kept multiplied by 2m^2.
RECURSIVE BestComm(_, _, _, _, _, _, _, _)
BestComm(comms, i, kIn, kOld, ki, m, commDeg, best) ==
  IF i > Len(comms) THEN best.comm
  ELSE LET targetComm == comms[i]
           delta == 2 * m * (kIn[targetComm] - kOld)
                    - ki * (commDeg[targetComm] - commDeg[best.current] + ki)
       IN IF delta > best.delta
          THEN BestComm(comms, i + 1, kIn, kOld, ki, m, commDeg,
                        [best EXCEPT !.delta = delta, !.comm = targetComm])
          ELSE BestComm(comms, i + 1, kIn, kOld, ki, m, commDeg, best)

\* One iteration of the for loop of runLouvain, for the node entities[i].
LouvainMove(entities, edges, m, L, i) ==
  LET nodeId == entities[i]
      ki == LouvainDegree(entities, edges, nodeId)
      currentComm == L.assignments[nodeId]
      neighbors == Neighbors(entities, edges, nodeId, 1, <<>>)
      kTo(c) == LET members == {j \in 1..Len(neighbors) : L.assignments[neighbors[j]] = c}
                    RECURSIVE Sum(_)
                    Sum(J) == IF J = {} THEN 0
                              ELSE LET j == CHOOSE x \in J : TRUE
                                   IN Weight(entities, edges, nodeId, neighbors[j])
                                      + Sum(J \ {j})
                IN Sum(members)
      comms == NeighborComms(neighbors, L.assignments, currentComm, 1, <<>>)
      kIn == [c \in Range(comms) |-> kTo(c)]
      bestComm == BestComm(comms, 1, kIn, kTo(currentComm), ki, m, L.commDeg,
                           [delta |-> 0, comm |-> currentComm, current |-> currentComm])
  IN IF ki = 0 \/ bestComm = currentComm THEN L
     ELSE [assignments |-> [L.assignments EXCEPT ![nodeId] = bestComm],
           commDeg |-> [L.commDeg EXCEPT ![currentComm] = @ - ki, ![bestComm] = @ + ki],
           improved |-> TRUE]

\* A faulty pass: it reports a move whether or not it made one.
RECURSIVE LouvainPassNeverStable(_, _, _, _, _)
LouvainPassNeverStable(entities, edges, m, L, i) ==
  IF i > Len(entities) THEN [L EXCEPT !.improved = TRUE]
  ELSE CHOOSE r \in {LouvainPassNeverStable(entities, edges, m, L1, i + 1) :
                       L1 \in {LouvainMove(entities, edges, m, L, i)}} : TRUE

\* One run of for (const entity of entities) in runLouvain.
RECURSIVE LouvainPass(_, _, _, _, _)
LouvainPass(entities, edges, m, L, i) ==
  IF i > Len(entities) THEN L
  ELSE CHOOSE r \in {LouvainPass(entities, edges, m, L1, i + 1) :
                       L1 \in {LouvainMove(entities, edges, m, L, i)}} : TRUE

RECURSIVE LouvainLoop(_, _, _, _)
LouvainLoop(entities, edges, m, L) ==
  CHOOSE r \in
    {IF after.improved THEN LouvainLoop(entities, edges, m, after)
     ELSE after.assignments :
       after \in {LouvainPass(entities, edges, m, [L EXCEPT !.improved = FALSE], 1)}} :
    TRUE

\* A faulty runLouvain: every entity gets the label of the first.
runLouvainOneCommunity(entities, edges) ==
  [u \in Range(entities) |-> entities[1]]

\* runLouvain: the community label of every entity.
runLouvain(entities, edges) ==
  LET m == Cardinality(Counted(entities, edges))
      start == [assignments |-> [u \in Range(entities) |-> u],
                commDeg |-> [u \in Range(entities) |-> LouvainDegree(entities, edges, u)],
                improved |-> TRUE]
  IN IF m = 0 THEN start.assignments ELSE LouvainLoop(entities, edges, m, start)

\* The values of communityGroups in insertion order, as sets of members.
RECURSIVE CommunityLabels(_, _, _, _)
CommunityLabels(entities, assignments, i, acc) ==
  IF i > Len(entities) THEN acc
  ELSE IF Includes(acc, assignments[entities[i]])
       THEN CommunityLabels(entities, assignments, i + 1, acc)
       ELSE CommunityLabels(entities, assignments, i + 1,
                            Append(acc, assignments[entities[i]]))

validCommunities(entities, assignments, minCommunitySize) ==
  LET labels == CommunityLabels(entities, assignments, 1, <<>>)
      groups == [i \in 1..Len(labels) |->
                   {u \in Range(entities) : assignments[u] = labels[i]}]
  IN SelectSeq(groups, LAMBDA members : Cardinality(members) >= minCommunitySize)

\* MATCH (c:Community {groupId}) OPTIONAL MATCH (c)-[:HAS_MEMBER]->(e:Entity);
\* the rows come in uuid order.
existingCommunities(d, g) ==
  LET S == {c \in d.communities : c.groupId = g}
      rows == Sorted(S, [c \in S |-> c.uuid])
  IN [i \in 1..Len(rows) |->
        [uuid |-> rows[i].uuid,
         memberUuids |-> {r.tgt : r \in {h \in d.hasMember :
                                           h.src = rows[i].uuid /\ HasEntity(d, h.tgt)}}]]

\* A faulty search: a Jaccard of 0.5 is enough.
RECURSIVE reuseUuidFromHalf(_, _, _, _, _)
reuseUuidFromHalf(memberUuids, existing, used, i, best) ==
  IF i > Len(existing) THEN best.uuid
  ELSE LET inter == Cardinality(memberUuids \cap existing[i].memberUuids)
           union == Cardinality(memberUuids \cup existing[i].memberUuids)
       IN IF /\ existing[i].uuid \notin used
             /\ union > 0
             /\ 10 * inter >= 5 * union
             /\ inter * best.union > best.inter * union
          THEN reuseUuidFromHalf(memberUuids, existing, used, i + 1,
                                 [uuid |-> {existing[i].uuid}, inter |-> inter,
                                  union |-> union])
          ELSE reuseUuidFromHalf(memberUuids, existing, used, i + 1, best)

\* The search for an existing community with Jaccard >= 0.7; {} when none.
RECURSIVE reuseUuid(_, _, _, _, _)
reuseUuid(memberUuids, existing, used, i, best) ==
  IF i > Len(existing) THEN best.uuid
  ELSE LET inter == Cardinality(memberUuids \cap existing[i].memberUuids)
           union == Cardinality(memberUuids \cup existing[i].memberUuids)
       IN IF /\ existing[i].uuid \notin used
             /\ union > 0
             /\ 10 * inter >= 7 * union
             /\ inter * best.union > best.inter * union
          THEN reuseUuid(memberUuids, existing, used, i + 1,
                         [uuid |-> {existing[i].uuid}, inter |-> inter, union |-> union])
          ELSE reuseUuid(memberUuids, existing, used, i + 1, best)

\* The upsert of the Community node and the rebuild of its HAS_MEMBER edges.
upsertCommunity(d, uuid, g, memberUuids, entityCount) ==
  LET node == [uuid |-> uuid, groupId |-> g, memberEntityIds |-> memberUuids,
               memberCount |-> Cardinality(memberUuids),
               entityCountAtLastRebuild |-> entityCount]
  IN [d EXCEPT
        !.communities = {c \in @ : c.uuid # uuid} \cup {node},
        !.hasMember = {h \in @ : h.src # uuid}
                      \cup {[src |-> uuid, tgt |-> u] : u \in {m \in memberUuids : HasEntity(d, m)}}]

\* The loop over validCommunities.  failAt is the index of the community whose
\* LLM or embedder call throws (0 when none does).
RECURSIVE buildCommunities(_, _, _, _, _, _, _, _, _, _)
buildCommunities(S, valid, i, existing, used, g, dryRun, entityCount, failAt, built) ==
  IF i > Len(valid)
  THEN [db |-> S.db, next |-> S.next, used |-> used, built |-> built, failed |-> FALSE]
  ELSE LET reuse == reuseUuid(valid[i], existing, used, 1,
                              [uuid |-> {}, inter |-> 0, union |-> 1])
           fresh == reuse = {} /\ ~ dryRun
           communityUuid == IF reuse = {} THEN S.next ELSE CHOOSE u \in reuse : TRUE
           S1 == [S EXCEPT !.next = IF fresh THEN @ + 1 ELSE @]
       IN IF dryRun
          THEN buildCommunities(S1, valid, i + 1, existing, used \cup reuse, g, dryRun,
                                entityCount, failAt, built + 1)
          ELSE IF failAt = i
          THEN [db |-> S1.db, next |-> S1.next, used |-> used \cup reuse,
                built |-> built + 1, failed |-> TRUE]
          ELSE buildCommunities(
                 [S1 EXCEPT !.db = upsertCommunity(@, communityUuid, g, valid[i],
                                                   entityCount)],
                 valid, i + 1, existing, used \cup reuse, g, dryRun, entityCount,
                 failAt, built + 1)

Max(S) == CHOOSE x \in S : \A y \in S : x >= y

SkippedCommunityReport(entityCount) ==
  [skipped |-> TRUE, communitiesBuilt |-> 0, communitiesRemoved |-> 0,
   entityCount |-> entityCount]

\* CommunityBuilder.run from step 6 on: the loop and the removal of the stale
\* communities.
communityRebuild(S, g, options, failAt, entities, existing, valid) ==
  CHOOSE r \in
    {LET staleUuids == {existing[i].uuid : i \in 1..Len(existing)} \ b.used
         swept == IF options.dryRun THEN b.db
                  ELSE [b.db EXCEPT
                          !.communities =
                             {c \in @ : ~ (c.groupId = g /\ c.uuid \in staleUuids)},
                          !.hasMember =
                             {h \in @ : ~ \E c \in b.db.communities :
                                c.uuid = h.src /\ c.groupId = g /\ c.uuid \in staleUuids}]
     IN IF b.failed
        THEN [db |-> b.db, next |-> b.next, failed |-> TRUE,
              report |-> SkippedCommunityReport(Len(entities))]
        ELSE [db |-> swept, next |-> b.next, failed |-> FALSE,
              report |-> [skipped |-> FALSE, communitiesBuilt |-> b.built,
                          communitiesRemoved |-> Cardinality(staleUuids),
                          entityCount |-> Len(entities)]] :
       b \in {buildCommunities(S, valid, 1, existing, {}, g, options.dryRun,
                               Len(entities), failAt, 0)}} : TRUE

\* A faulty run: it has the size gate and no rebuild threshold.
communityGatesWithoutThreshold(S, g, options, failAt, entities, edges, existing) ==
  IF Len(entities) < options.minGraphSize
  THEN [db |-> S.db, next |-> S.next, failed |-> FALSE,
        report |-> SkippedCommunityReport(Len(entities))]
  ELSE communityRebuild(S, g, options, failAt, entities, existing,
                        validCommunities(entities, runLouvain(entities, edges),
                                         options.minCommunitySize))

\* CommunityBuilder.run from its first gate on, given the rows of its queries.
communityGates(S, g, options, failAt, entities, edges, existing) ==
  LET counts == {c.entityCountAtLastRebuild : c \in {k \in S.db.communities : k.groupId = g}}
      lastCount == IF counts = {} THEN 0 ELSE Max(counts)
  IN IF \/ Len(entities) < options.minGraphSize
        \/ Len(entities) - lastCount < options.rebuildThreshold
     THEN [db |-> S.db, next |-> S.next, failed |-> FALSE,
           report |-> SkippedCommunityReport(Len(entities))]
     ELSE CHOOSE r \in
            {communityRebuild(S, g, options, failAt, entities, existing, valid) :
               valid \in {validCommunities(entities, runLouvain(entities, edges),
                                           options.minCommunitySize)}} : TRUE

\* CommunityBuilder.run.
CommunityBuilderRun(S, g, options, failAt) ==
  CHOOSE r \in
    {communityGates(S, g, options, failAt, entities, edges, existing) :
       entities \in {EntityRows(S.db, g)}, edges \in {EdgeRows(S.db, g)},
       existing \in {existingCommunities(S.db, g)}} : TRUE

----------------------------------------------------------------------------
(* Sleep engine: SleepEngine.sleep *)

EmptyPruningReport == [entitiesMerged |-> 0, edgesPruned |-> 0]

\* SleepEngine.sleep on a plain group id.  The inputs after options are what the
\* environment does during the run: the outcome of the LLM and embedder calls of
\* Phase 1 per cluster and the summary text the LLM writes, the order the sort of
\* Phase 2 leaves equal similarities in, and the Phase 3 call that throws.
sleep(S, g, options, outcome, newSummary, order, failAt, t) ==
  CHOOSE r \in
    {[db |-> phases[3].db, next |-> phases[3].next, failed |-> phases[3].failed,
      phase1Consolidation |-> phases[1].report,
      phase2Pruning |-> phases[2].report,
      phase3Communities |-> phases[3].report] :
       phases \in
         {<<p12[1], p12[2],
            CommunityBuilderRun([db |-> p12[2].db, next |-> S.next], g, options, failAt)>> :
            p12 \in {<<phase1, PrunerRun(phase1.db, g, options, order)>> :
              phase1 \in {ConsolidatorRun(S.db, g, options, outcome, newSummary, t)}}}} :
    TRUE

----------------------------------------------------------------------------
(* The sequential specification: one operation at a time.  The clock now is
   read by utcNow() and advances by one unit (half a day) with every
   operation that reads it. *)

\* What the caller can pass as SleepOptions.
SleepOptions ==
  [dryRun : BOOLEAN, cooldownMinutes : {0},
   minEpisodes : {DEFAULT_MIN_EPISODES}, maxEntities : {DEFAULT_MAX_ENTITIES},
   similarityThreshold : {DEFAULT_SIMILARITY_THRESHOLD},
   minGraphSize : {MinGraphSize}, minCommunitySize : {MinCommunitySize},
   rebuildThreshold : {RebuildThreshold}]

NoOptions == CHOOSE o \in SleepOptions : ~ o.dryRun /\ o.cooldownMinutes = 0

NoReport ==
  [phase1Consolidation |-> EmptyConsolidationReport,
   phase2Pruning |-> EmptyPruningReport,
   phase3Communities |-> SkippedCommunityReport(0)]

\* The record of the last operation: for a sleep its target, its options,
\* whether every LLM and embedder call of the run succeeded (clean), whether it
\* threw (failed), and the report it returned.
Op(kind) ==
  [op |-> kind, group |-> "stm", options |-> NoOptions, clean |-> TRUE,
   failed |-> FALSE, report |-> NoReport]

\* The concurrent callers of addEpisode.
Procs == {1, 2}

\* A call that has not started.
IdleCall ==
  [pc |-> "idle", x |-> [entities |-> <<>>, relations |-> <<>>], i |-> 0,
   existing |-> {}, nodes |-> <<>>, episode |-> 0, t |-> 0]

\* The statement-by-statement call before it starts.  begin is the store the
\* call started on, origin the store the first attempt on its content started
\* on, disputes the episodes of the edges its negated relations have matched.
IdleStep ==
  [pc |-> "idle", g |-> "stm", x |-> [entities |-> <<>>, relations |-> <<>>],
   ents |-> <<>>, i |-> 1, nodes |-> <<>>, episode |-> 0, t |-> 0, started |-> 0,
   retryOf |-> "none", begin |-> EmptyDb, origin |-> EmptyDb, disputes |-> {}]

\* No pair is being merged.  Of a Pruner.run taken statement by statement:
\* index is the position in the sorted pairs, pc the statement of mergeEntities
\* to run next, before the store when the merge of the pair began.
NoMerge ==
  [pc |-> 0, index |-> 0, groupId |-> "stm", alreadyMerged |-> {}, merged |-> 0,
   before |-> EmptyDb]

\* The sleep() call before it starts.  done lists the phases that have returned;
\* clusters, outcome, newSummary, order and failAt are what the environment gave
\* the phases that have run; threw tells whether the last call threw.
IdleCycle ==
  [phase |-> "idle", tiered |-> FALSE, groupId |-> "stm", ltmGroupId |-> "ltm",
   options |-> NoOptions, done |-> <<>>, clusters |-> {}, outcome |-> <<>>,
   newSummary |-> "s1", order |-> <<>>, failAt |-> 0, threw |-> FALSE,
   report |-> NoReport, merge |-> NoMerge]

\* No function applied yet, to the arguments a.
Unapplied(a) ==
  a @@ [fn |-> "none", days |-> 0, assignments |-> <<>>, commDeg |-> <<>>,
        ranked |-> <<>>, after |-> EmptyDb]

\* The state after construction, with the arguments a for the pure functions.
Started(a) ==
  /\ db = EmptyDb
  /\ nextUuid = 1
  /\ now = 0
  /\ ingested = 0
  /\ deleted = 0
  /\ slept = 0
  /\ lastOp = Op("other")
  /\ calls = [p \in Procs |-> IdleCall]
  /\ step = IdleStep
  /\ autoSleepTimer = {}
  /\ timers = {}
  /\ runs = {}
  /\ sched = [nextId |-> 1, starts |-> 0, directs |-> 0, firings |-> 0]
  /\ stopped = FALSE
  /\ settled = [n |-> 0, threw |-> FALSE, onErrorThrows |-> FALSE,
                onComplete |-> FALSE, onError |-> FALSE, escaped |-> FALSE]
  /\ cycle = IdleCycle
  /\ applied = Unapplied(a)

Init == Started([createdAt |-> 0, validAt |-> 0, entities |-> <<>>, edges |-> <<>>])

\* Graphzep.addEpisode, run to its end, on a group of G and an extraction
\* drawn from X.
AddEpisodeIn(G, X) ==
  /\ ingested < MaxEpisodes
  /\ \E g \in G, x \in X :
       \E S \in {addEpisode([db |-> db, next |-> nextUuid], g, now, x, now)} :
          /\ db' = S.db
          /\ nextUuid' = S.next
  /\ ingested' = ingested + 1
  /\ lastOp' = Op("other")
  /\ now' = now + 1
  /\ UNCHANGED <<deleted, slept, concVars, schedVars, sleepVars>>

\* Graphzep.deleteNode: getNode(uuid), then node.delete if it was found.
DeleteNode ==
  /\ deleted < MaxDeletes
  /\ \E u \in NodeUuids(db) : db' = NodeDelete(db, u)
  /\ deleted' = deleted + 1
  /\ lastOp' = Op("other")
  /\ UNCHANGED <<nextUuid, now, ingested, slept, concVars, schedVars, sleepVars>>

\* A direct call of SleepEngine.sleep(groupId, options), run to its end; at most
\* n such calls are made.
SleepWithin(n) ==
  /\ slept < n
  /\ \E g \in SleepTargets, options \in SleepOptions, newSummary \in Summaries,
        failAt \in 0..MaxCommunities :
       \E outcome \in [{c.uuid : c \in fetchEntityClusters(db, g, options.cooldownMinutes,
                                    options.minEpisodes, options.maxEntities, now)}
                         -> ClusterOutcomes] :
         \E order \in PrunerOrders(
                        ConsolidatorRun(db, g, options, outcome, newSummary, now).db,
                        g, options) :
           \E r \in {sleep([db |-> db, next |-> nextUuid], g, options, outcome,
                          newSummary, order, failAt, now)} :
              /\ db' = r.db
              /\ nextUuid' = r.next
              /\ lastOp' = [op |-> "sleep", group |-> g, options |-> options,
                            clean |-> (\A u \in DOMAIN outcome : outcome[u] = "ok")
                                      /\ ~ r.failed,
                            failed |-> r.failed,
                            report |-> IF r.failed THEN NoReport
                                       ELSE [phase1Consolidation |-> r.phase1Consolidation,
                                             phase2Pruning |-> r.phase2Pruning,
                                             phase3Communities |-> r.phase3Communities]]
  /\ slept' = slept + 1
  /\ UNCHANGED <<now, ingested, deleted, concVars, schedVars, sleepVars>>

AddEpisodeFrom(X) == AddEpisodeIn(Groups, X)

AddEpisode == AddEpisodeFrom(Extractions)

\* Extractions in which every item is confident, asserted and current.
PlainExtractions ==
  {x \in Extractions :
     /\ LowConfidence(x) = 0
     /\ \A i \in 1..Len(x.relations) :
          ~ x.relations[i].isNegated /\ x.relations[i].temporalValidity = "current"}

AddPlainEpisode == AddEpisodeFrom(PlainExtractions)

\* Ingestion and deletion, one call at a time.
Next == AddEpisode \/ DeleteNode

Spec == Init /\ [][Next]_vars

Sleep == SleepWithin(MaxSleeps)

\* Ingestion and sleep cycles, one call at a time.
NextSleep == AddPlainEpisode \/ Sleep

SpecSleep == Init /\ [][NextSleep]_vars

SleepOnce == SleepWithin(MaxSleepsWithDeletes)

\* Ingestion, deletion and sleep cycles, one call at a time.
NextDelete == AddPlainEpisode \/ DeleteNode \/ SleepOnce

SpecDelete == Init /\ [][NextDelete]_vars

----------------------------------------------------------------------------
(* Concurrent ingestion: two addEpisode calls on one group, interleaved at the
   awaits of processExtractedEntities.  The episode's save, and the links and
   relations that follow the entities, are one step each. *)

ConcGroup == "stm"

\* addEpisode up to the call of processExtractedEntities: the episode is saved
\* and the extraction is back from the LLM, filtered by confidence.
ConcStart(p) ==
  /\ calls[p].pc = "idle"
  /\ \E x \in PlainExtractions :
       /\ db' = EpisodeSave(db, NewEpisode(nextUuid, ConcGroup, now, now))
       /\ calls' = [calls EXCEPT ![p] =
            [pc |-> "find",
             x |-> [x EXCEPT !.entities =
                      SelectSeq(@, LAMBDA e : e.confidence >= ENTITY_CONFIDENCE_THRESHOLD)],
             i |-> 1, existing |-> {}, nodes |-> <<>>, episode |-> nextUuid, t |-> now]]
  /\ nextUuid' = nextUuid + 1
  /\ now' = now + 1
  /\ UNCHANGED <<ingested, deleted, slept, lastOp, step, schedVars, sleepVars>>

\* const existing = await this.findExistingEntity(entity.name, groupId).
ConcFind(p) ==
  /\ calls[p].pc = "find"
  /\ calls[p].i <= Len(calls[p].x.entities)
  /\ calls' = [calls EXCEPT
       ![p].existing = findExistingEntity(db, calls[p].x.entities[calls[p].i].name, ConcGroup),
       ![p].pc = "save"]
  /\ UNCHANGED <<graphVars, step, schedVars, sleepVars>>

\* The LLM and embedder calls of either branch, then await node.save.
ConcSave(p) ==
  /\ calls[p].pc = "save"
  /\ LET c == calls[p]
         entity == c.x.entities[c.i]
         node == IF c.existing # {}
                 THEN MergeExisting(CHOOSE e \in c.existing : TRUE, entity)
                 ELSE NewEntity(nextUuid, entity, ConcGroup, c.t)
     IN /\ db' = EntitySave(db, node)
        /\ nextUuid' = IF c.existing # {} THEN nextUuid ELSE nextUuid + 1
        /\ calls' = [calls EXCEPT ![p].nodes = Append(@, node), ![p].i = @ + 1,
                                  ![p].existing = {}, ![p].pc = "find"]
  /\ UNCHANGED <<now, ingested, deleted, slept, lastOp, step, schedVars, sleepVars>>

\* linkEpisodeToEntities and processExtractedRelations, then the call returns.
ConcFinish(p) ==
  /\ calls[p].pc = "find"
  /\ calls[p].i > Len(calls[p].x.entities)
  /\ LET c == calls[p]
         episodicNode == NewEpisode(c.episode, ConcGroup, c.t, c.t)
     IN \E S \in {processExtractedRelations(
                    linkEpisodeToEntities([db |-> db, next |-> nextUuid],
                                          episodicNode, c.nodes, 1),
                    c.x.relations, 1, c.nodes, ConcGroup, c.episode, c.t)} :
          /\ db' = S.db
          /\ nextUuid' = S.next
  /\ calls' = [calls EXCEPT ![p].pc = "done"]
  /\ UNCHANGED <<now, ingested, deleted, slept, lastOp, step, schedVars, sleepVars>>

NextConc == \E p \in Procs : ConcStart(p) \/ ConcFind(p) \/ ConcSave(p) \/ ConcFinish(p)

SpecConc == Init /\ [][NextConc]_vars

----------------------------------------------------------------------------
(* addEpisode statement by statement: one caller, one await of the source per
   step.  The embedding of the content, which precedes the episode's save, has
   succeeded.  The extraction x is what the LLM returns for this content; it
   is drawn when the call starts and is the same when the same content is
   ingested again. *)

\* The statements of addEpisode in their order: the extraction, then
\* processExtractedEntities, linkEpisodeToEntities, processExtractedRelations,
\* then the return.
PhaseAfterSkippingLinks(pc) ==
  IF pc = "extract" THEN "entities"
  ELSE IF pc = "entities" THEN "relations"
  ELSE "done"

PhaseAfter(pc) ==
  IF pc = "extract" THEN "entities"
  ELSE IF pc = "entities" THEN "links"
  ELSE IF pc = "links" THEN "relations"
  ELSE "done"

\* The call moved past every loop that has no iteration left.
RECURSIVE Advance(_)
Advance(c) ==
  LET items == IF c.pc = "entities" THEN Len(c.ents)
               ELSE IF c.pc = "links" THEN Len(c.nodes)
               ELSE Len(c.x.relations)
  IN IF c.pc \in {"entities", "links", "relations"} /\ c.i > items
     THEN Advance([c EXCEPT !.pc = PhaseAfter(@), !.i = 1])
     ELSE c

\* The store after an exception leaves addEpisode: nothing catches it and
\* nothing is undone.
abortRollingBack(d, c) == NodeDelete(d, c.episode)

abort(d, c) == d

\* addEpisode up to the episode's save, on content whose extraction is x.
StepBegin(x, g, retryOf) ==
  /\ db' = EpisodeSave(db, NewEpisode(nextUuid, g, now, now))
  /\ step' = [pc |-> "extract", g |-> g, x |-> x, ents |-> <<>>, i |-> 1,
              nodes |-> <<>>, episode |-> nextUuid, t |-> now,
              started |-> step.started + 1, retryOf |-> retryOf, begin |-> db,
              origin |-> IF retryOf = "failed" THEN step.origin ELSE db,
              disputes |-> {}]
  /\ nextUuid' = nextUuid + 1
  /\ now' = now + 1
  /\ UNCHANGED <<ingested, deleted, slept, lastOp, calls, schedVars, sleepVars>>

\* A call on new content: at most n calls start.
StartFrom(X, G, n) ==
  /\ step.pc \in {"idle", "done", "failed"}
  /\ step.started < n
  /\ \E x \in X, g \in G : StepBegin(x, g, "none")

\* The caller ingests the content of the call that has just returned or thrown
\* once more.
RetryCall ==
  /\ step.pc \in {"done", "failed"}
  /\ step.started < MaxAttempts
  /\ StepBegin(step.x, step.g, step.pc)

\* extractEntitiesAndRelations returns; processExtractedEntities filters the
\* entities by confidence.
ExtractReturns ==
  /\ step.pc = "extract"
  /\ step' = Advance([step EXCEPT
                !.pc = PhaseAfter(@),
                !.ents = SelectSeq(step.x.entities,
                           LAMBDA e : e.confidence >= ENTITY_CONFIDENCE_THRESHOLD)])
  /\ UNCHANGED <<graphVars, calls, schedVars, sleepVars>>

\* The LLM call of extractEntitiesAndRelations throws.
ExtractFails ==
  /\ step.pc = "extract"
  /\ db' = abort(db, step)
  /\ step' = [step EXCEPT !.pc = "failed"]
  /\ UNCHANGED <<nextUuid, now, ingested, deleted, slept, lastOp, calls, schedVars, sleepVars>>

\* One iteration of the loop of processExtractedEntities.
EntityStep ==
  /\ step.pc = "entities"
  /\ LET entity == step.ents[step.i]
         existing == findExistingEntity(db, entity.name, step.g)
         node == IF existing # {}
                 THEN MergeExisting(CHOOSE e \in existing : TRUE, entity)
                 ELSE NewEntity(nextUuid, entity, step.g, step.t)
     IN /\ db' = EntitySave(db, node)
        /\ nextUuid' = IF existing # {} THEN nextUuid ELSE nextUuid + 1
        /\ step' = Advance([step EXCEPT !.nodes = Append(@, node), !.i = @ + 1])
  /\ UNCHANGED <<now, ingested, deleted, slept, lastOp, calls, schedVars, sleepVars>>

\* mergeEntitySummary or embedder.embed throws in an iteration of that loop.
EntityFails ==
  /\ step.pc = "entities"
  /\ db' = abort(db, step)
  /\ step' = [step EXCEPT !.pc = "failed"]
  /\ UNCHANGED <<nextUuid, now, ingested, deleted, slept, lastOp, calls, schedVars, sleepVars>>

\* One iteration of the loop of linkEpisodeToEntities.
LinkStep ==
  /\ step.pc = "links"
  /\ db' = EpisodicEdgeSave(db, [uuid |-> nextUuid, groupId |-> step.g,
                                 src |-> step.episode, tgt |-> step.nodes[step.i].uuid])
  /\ nextUuid' = nextUuid + 1
  /\ step' = Advance([step EXCEPT !.i = @ + 1])
  /\ UNCHANGED <<now, ingested, deleted, slept, lastOp, calls, schedVars, sleepVars>>

\* The edges the query of _resolveConflict can return for the relation:
\* asserted between the two nodes the call has processed, and not invalidated.
ActiveCounterparts(d, c, relation) ==
  {r \in d.relates :
     /\ r.name = relation.relationName /\ r.invalidAt = {}
     /\ \E a \in entityMapGet(c.nodes, relation.sourceName) : r.src = a.uuid
     /\ \E b \in entityMapGet(c.nodes, relation.targetName) : r.tgt = b.uuid}

\* One iteration of the loop of processExtractedRelations.
RelationStep ==
  /\ step.pc = "relations"
  /\ LET relation == step.x.relations[step.i]
         matched == IF relation.isNegated
                       /\ relation.confidence >= RELATION_CONFIDENCE_THRESHOLD
                    THEN ActiveCounterparts(db, step, relation) ELSE {}
         edge == CHOOSE r \in matched : \A o \in matched : r.uuid <= o.uuid
     IN \E S \in {processRelation([db |-> db, next |-> nextUuid], relation, step.nodes,
                                  step.g, step.episode, step.t)} :
          /\ db' = S.db
          /\ nextUuid' = S.next
          /\ step' = Advance([step EXCEPT
                        !.i = @ + 1,
                        !.disputes = IF matched = {} THEN @
                                     ELSE @ \cup Range(edge.episodes)])
  /\ UNCHANGED <<now, ingested, deleted, slept, lastOp, calls, schedVars, sleepVars>>

StartCall == StartFrom(Extractions, {"stm"}, MaxAttempts)

\* One caller: calls, repeated calls, and calls that throw.
NextSteps ==
  \/ StartCall \/ RetryCall
  \/ ExtractReturns \/ ExtractFails
  \/ EntityStep \/ EntityFails
  \/ LinkStep \/ RelationStep

SpecSteps == Init /\ [][NextSteps]_vars

\* Extractions of two confident entities with up to MaxCallRelations confident
\* relations between them, asserted or negated, current or historical.
RelationExtractions ==
  [entities : {<<[name |-> NameAl, summary |-> "s1", confidence |-> 10],
                 [name |-> NameBo, summary |-> "s1", confidence |-> 10]>>},
   relations : SeqsUpTo({r \in ExtractedRelations :
                           /\ r.confidence = 10
                           /\ {r.sourceName, r.targetName} = {NameAl, NameBo}},
                        MaxCallRelations)]

StartRelationCall == StartFrom(RelationExtractions, {"stm"}, MaxRelationCalls)

\* One caller whose calls all return.
NextRelations ==
  StartRelationCall \/ ExtractReturns \/ EntityStep \/ LinkStep \/ RelationStep

SpecRelations == Init /\ [][NextRelations]_vars

\* The relation Al KNOWS Bo, asserted as current.
AssertsCurrent(r) ==
  /\ ~ r.isNegated /\ r.temporalValidity = "current"
  /\ r.sourceName = NameAl /\ r.targetName = NameBo

\* Extractions that assert Al KNOWS Bo as current, alone or with another
\* relation between the two, before or after it.
AccumulatingExtractions ==
  {x \in RelationExtractions : \E i \in 1..Len(x.relations) : AssertsCurrent(x.relations[i])}

StartAccumulatingCall == StartFrom(AccumulatingExtractions, {"stm"}, MaxRelationCalls)

\* One caller whose episodes all assert the same current relation.
NextAccumulate ==
  StartAccumulatingCall \/ ExtractReturns \/ EntityStep \/ LinkStep \/ RelationStep

SpecAccumulate == Init /\ [][NextAccumulate]_vars

----------------------------------------------------------------------------
(* The scheduler of the sleep engine.  A timeout is known by the id setTimeout
   returned; a run of sleep() is in flight from its call to the settling of
   its promise.  What a run does to the graph is the action Sleep. *)

\* The closure schedule(): set a timeout for the next occurrence of the hour
\* and keep its id in _autoSleepTimer.
schedule(id) ==
  /\ timers' = timers \cup {id}
  /\ autoSleepTimer' = {id}

\* SleepEngine.startAutoSleep: stopAutoSleep(), then schedule().
StartAutoSleep ==
  /\ sched.starts < MaxStarts
  /\ timers' = (timers \ autoSleepTimer) \cup {sched.nextId}
  /\ autoSleepTimer' = {sched.nextId}
  /\ sched' = [sched EXCEPT !.nextId = @ + 1, !.starts = @ + 1]
  /\ stopped' = FALSE
  /\ UNCHANGED <<runs, settled, graphVars, concVars, sleepVars>>

\* SleepEngine.stopAutoSleep: clearTimeout on the id kept, if any, and null.
StopAutoSleep ==
  /\ timers' = timers \ autoSleepTimer
  /\ autoSleepTimer' = {}
  /\ stopped' = TRUE
  /\ UNCHANGED <<runs, sched, settled, graphVars, concVars, sleepVars>>

\* A timeout fires: its callback calls this.sleep(target, options) and awaits it.
TimerFires ==
  /\ sched.firings < MaxFirings
  /\ \E id \in timers :
       /\ timers' = timers \ {id}
       /\ runs' = runs \cup {[id |-> id, scheduled |-> TRUE]}
  /\ sched' = [sched EXCEPT !.firings = @ + 1]
  /\ UNCHANGED <<autoSleepTimer, stopped, settled, graphVars, concVars, sleepVars>>

\* A caller calls sleep() directly.
DirectSleep ==
  /\ sched.directs < MaxDirectSleeps
  /\ runs' = runs \cup {[id |-> sched.nextId, scheduled |-> FALSE]}
  /\ sched' = [sched EXCEPT !.nextId = @ + 1, !.directs = @ + 1]
  /\ UNCHANGED <<autoSleepTimer, timers, stopped, settled, graphVars, concVars, sleepVars>>

\* A faulty callback: a run that throws ends the loop.
timeoutCallbackStoppingOnError(threw, onCompleteThrows, onErrorThrows) ==
  [onComplete |-> ~ threw, onError |-> threw \/ onCompleteThrows,
   escaped |-> threw \/ (onCompleteThrows /\ onErrorThrows)]

\* The body of the timeout's callback up to schedule(): try { await sleep();
\* onComplete(report) } catch (err) { onError(err) }.  An exception of onComplete
\* is caught by the same catch; an exception of onError escapes the callback.
timeoutCallback(threw, onCompleteThrows, onErrorThrows) ==
  [onComplete |-> ~ threw, onError |-> threw \/ onCompleteThrows,
   escaped |-> (threw \/ onCompleteThrows) /\ onErrorThrows]

\* A run settles, resolved or rejected.  The callback of a timeout then calls
\* onComplete or onError, either of which may throw, and reaches schedule()
\* unless an exception escaped.
RunSettles ==
  /\ \E r \in runs, threw, onCompleteThrows, onErrorThrows \in BOOLEAN :
       /\ runs' = runs \ {r}
       /\ IF r.scheduled
          THEN \E c \in {timeoutCallback(threw, onCompleteThrows, onErrorThrows)} :
                 /\ settled' = [n |-> settled.n + 1, threw |-> threw,
                                onErrorThrows |-> onErrorThrows,
                                onComplete |-> c.onComplete, onError |-> c.onError,
                                escaped |-> c.escaped]
                 /\ IF c.escaped
                    THEN UNCHANGED <<timers, autoSleepTimer, sched>>
                    ELSE /\ schedule(sched.nextId)
                         /\ sched' = [sched EXCEPT !.nextId = @ + 1]
          ELSE UNCHANGED <<timers, autoSleepTimer, sched, settled>>
  /\ UNCHANGED <<stopped, graphVars, concVars, sleepVars>>

NextSched == StartAutoSleep \/ StopAutoSleep \/ TimerFires \/ DirectSleep \/ RunSettles

SpecSched == Init /\ [][NextSched]_vars

----------------------------------------------------------------------------
(* Tiered consolidation: Consolidator.runTiered.  SleepEngine.sleep calls it
   for a TierConfig target; its body is not among the sources, and it is
   modelled here from the specification's description of the tiered mode. *)

\* T1: the counterpart of a name in the LTM group, by exact name match.
ltmCounterpart(d, name, ltm) ==
  LET m == {e \in d.entities : e.name = name /\ e.groupId = ltm}
  IN IF m = {} THEN {} ELSE {CHOOSE e \in m : \A o \in m : e.uuid <= o.uuid}

\* T3 for one cluster: every active RELATES_TO edge on the STM entity whose
\* two ends have a counterpart in LTM is upserted there, merged by source,
\* target, name and group; the others are left for a later cycle.  The uuid of
\* a new LTM edge is stm_relation_uuid + ":ltm": the fresh uuids are positive,
\* the migrated ones their negatives.
RECURSIVE migrateRelations(_, _, _)
migrateRelations(d, todo, ltm) ==
  IF todo = {} THEN d
  ELSE LET r == CHOOSE e \in todo : \A o \in todo : e.uuid <= o.uuid
           nameOf(u) == (CHOOSE e \in d.entities : e.uuid = u).name
           src == ltmCounterpart(d, nameOf(r.src), ltm)
           tgt == ltmCounterpart(d, nameOf(r.tgt), ltm)
           s == (CHOOSE e \in src : TRUE).uuid
           g == (CHOOSE e \in tgt : TRUE).uuid
           match == {e \in d.relates : /\ e.src = s /\ e.tgt = g /\ e.name = r.name
                                       /\ e.groupId = ltm}
           created == [uuid |-> 0 - r.uuid, groupId |-> ltm, src |-> s, tgt |-> g,
                       name |-> r.name, episodes |-> r.episodes, validAt |-> r.validAt,
                       invalidAt |-> {}, disputedBy |-> <<>>]
       IN IF src = {} \/ tgt = {}
          THEN migrateRelations(d, todo \ {r}, ltm)
          ELSE IF match = {}
          THEN migrateRelations([d EXCEPT !.relates = @ \cup {created}], todo \ {r}, ltm)
          ELSE migrateRelations(
                 [d EXCEPT !.relates =
                    {IF e \in match THEN [e EXCEPT !.episodes = @ \o r.episodes] ELSE e :
                       e \in @}],
                 todo \ {r}, ltm)

\* A faulty T3: it looks only at the edges that leave the STM entity.
activeRelationsOutgoing(d, u) ==
  {r \in d.relates : r.src = u /\ HasEntity(d, r.tgt) /\ r.invalidAt = {}}

\* The active RELATES_TO edges on an STM entity, in either direction.
activeRelations(d, u) ==
  {r \in d.relates : /\ (r.src = u \/ r.tgt = u)
                     /\ HasEntity(d, r.src) /\ HasEntity(d, r.tgt)
                     /\ r.invalidAt = {}}

\* The loop of runTiered over the STM clusters still to process.
RECURSIVE tieredClusters(_, _, _, _, _, _, _, _)
tieredClusters(S, todo, ltm, options, outcome, newSummary, t, report) ==
  IF todo = {} THEN [db |-> S.db, next |-> S.next, report |-> report]
  ELSE LET cluster == CHOOSE c \in todo : \A o \in todo : c.uuid <= o.uuid
           rest == todo \ {cluster}
           counted == [entitiesRefreshed |-> report.entitiesRefreshed + 1,
                       episodesConsolidated |->
                         report.episodesConsolidated + Cardinality(cluster.episodeUuids)]
           found == ltmCounterpart(S.db, cluster.name, ltm)
           written ==
             IF found # {}
             THEN [db |-> updateEntity(S.db, (CHOOSE e \in found : TRUE).uuid, newSummary,
                                       Embed(newSummary), t),
                   next |-> S.next]
             ELSE [db |-> EntitySave(S.db,
                            [uuid |-> S.next, name |-> cluster.name, groupId |-> ltm,
                             summary |-> newSummary,
                             summaryEmbedding |-> Embed(newSummary), createdAt |-> t]),
                   next |-> S.next + 1]
       IN IF outcome[cluster.uuid] = "llmFails"
          THEN tieredClusters(S, rest, ltm, options, outcome, newSummary, t, report)
          ELSE IF options.dryRun
          THEN tieredClusters(S, rest, ltm, options, outcome, newSummary, t, counted)
          ELSE IF outcome[cluster.uuid] = "embedFails"
          THEN tieredClusters(S, rest, ltm, options, outcome, newSummary, t, report)
          ELSE CHOOSE r \in
                 {tieredClusters(S1, rest, ltm, options, outcome, newSummary, t, counted) :
                    S1 \in {[db |-> markConsolidated(
                                      migrateRelations(
                                        written.db,
                                        activeRelations(written.db, cluster.uuid), ltm),
                                      cluster.episodeUuids, t),
                             next |-> written.next]}} : TRUE

\* Consolidator.runTiered.
runTiered(S, stm, ltm, options, outcome, newSummary, t) ==
  CHOOSE r \in
    {tieredClusters(S, clusters, ltm, options, outcome, newSummary, t,
                    EmptyConsolidationReport) :
       clusters \in {fetchEntityClusters(S.db, stm, options.cooldownMinutes,
                                         options.minEpisodes, options.maxEntities, t)}} :
    TRUE

----------------------------------------------------------------------------
(* SleepEngine.sleep phase by phase: one await of sleep() per step, nothing
   else running on the engine's store during the call. *)

\* A faulty order of the awaits: pruning before consolidation.
SleepPhaseAfterPruningFirst(phase) ==
  CASE phase = "idle" -> "pruning"
    [] phase = "pruning" -> "consolidation"
    [] phase = "consolidation" -> "communities"
    [] OTHER -> "idle"

\* The awaits of sleep() in their order.
SleepPhaseAfter(phase) ==
  CASE phase = "idle" -> "consolidation"
    [] phase = "consolidation" -> "pruning"
    [] phase = "pruning" -> "communities"
    [] OTHER -> "idle"

\* A faulty choice of the group Phase 2 works on: the STM group, always.
pruningTargetStm(c) == c.groupId

\* const pruningTarget = isTiered ? target.ltmGroupId : groupId.
pruningTarget(c) == IF c.tiered THEN c.ltmGroupId ELSE c.groupId

\* The targets sleep() is called with: a group id, or a TierConfig.
PlainTargets == {[tiered |-> FALSE, groupId |-> g, ltmGroupId |-> g] : g \in SleepTargets}
TieredTargets == {[tiered |-> TRUE, groupId |-> "stm", ltmGroupId |-> "ltm"]}

\* sleep() up to its first await; at most n calls are made.
CycleStart(n, targets, optionSet) ==
  /\ cycle.phase = "idle"
  /\ slept < n
  /\ \E target \in targets, options \in optionSet :
       cycle' = [IdleCycle EXCEPT !.phase = SleepPhaseAfter("idle"),
                                  !.tiered = target.tiered,
                                  !.groupId = target.groupId,
                                  !.ltmGroupId = target.ltmGroupId,
                                  !.options = options]
  /\ slept' = slept + 1
  /\ UNCHANGED <<db, nextUuid, now, ingested, deleted, lastOp, concVars, schedVars, applied>>

\* Phase 1: await this.consolidator.run or runTiered.
ConsolidationPhase ==
  /\ cycle.phase = "consolidation"
  /\ \E newSummary \in Summaries,
        clusters \in {fetchEntityClusters(db, cycle.groupId, cycle.options.cooldownMinutes,
                                          cycle.options.minEpisodes,
                                          cycle.options.maxEntities, now)} :
       \E outcome \in [{c.uuid : c \in clusters} -> ClusterOutcomes] :
         \E r \in {IF cycle.tiered
                   THEN runTiered([db |-> db, next |-> nextUuid], cycle.groupId,
                                  cycle.ltmGroupId, cycle.options, outcome, newSummary, now)
                   ELSE [next |-> nextUuid] @@
                        ConsolidatorRun(db, cycle.groupId, cycle.options, outcome,
                                        newSummary, now)} :
           /\ db' = r.db
           /\ nextUuid' = r.next
           /\ cycle' = [cycle EXCEPT !.phase = SleepPhaseAfter(@),
                                     !.done = Append(@, "consolidation"),
                                     !.clusters = clusters,
                                     !.outcome = outcome,
                                     !.newSummary = newSummary,
                                     !.report.phase1Consolidation = r.report]
  /\ UNCHANGED <<now, ingested, deleted, slept, lastOp, concVars, schedVars, applied>>

\* Phase 2: await this.pruner.run(pruningTarget, options).
PruningPhase ==
  /\ cycle.phase = "pruning"
  /\ \E order \in PrunerOrders(db, pruningTarget(cycle), cycle.options) :
       \E r \in {PrunerRun(db, pruningTarget(cycle), cycle.options, order)} :
          /\ db' = r.db
          /\ cycle' = [cycle EXCEPT !.phase = SleepPhaseAfter(@),
                                    !.done = Append(@, "pruning"),
                                    !.order = order,
                                    !.report.phase2Pruning = r.report]
  /\ UNCHANGED <<nextUuid, now, ingested, deleted, slept, lastOp, concVars, schedVars,
                 applied>>

\* Phase 3: await this.communityBuilder.run(communityTarget, options), and the
\* return of sleep() or the exception that leaves it.
CommunitiesPhase ==
  /\ cycle.phase = "communities"
  /\ \E failAt \in 0..MaxCommunities :
       \E r \in {CommunityBuilderRun([db |-> db, next |-> nextUuid],
                                     IF cycle.tiered THEN cycle.ltmGroupId
                                     ELSE cycle.groupId,
                                     cycle.options, failAt)} :
          /\ db' = r.db
          /\ nextUuid' = r.next
          /\ cycle' = [IdleCycle EXCEPT !.phase = SleepPhaseAfter(cycle.phase),
                                        !.done = Append(cycle.done, "communities"),
                                        !.tiered = cycle.tiered,
                                        !.options = cycle.options,
                                        !.failAt = failAt,
                                        !.threw = r.failed,
                                        !.report.phase3Communities = r.report]
  /\ UNCHANGED <<now, ingested, deleted, slept, lastOp, concVars, schedVars, applied>>

\* Ingestion into the group the engine sleeps on between sleep() calls, and the
\* calls phase by phase.
NextPhases ==
  \/ cycle.phase = "idle" /\ AddEpisodeIn(SleepTargets, PlainExtractions)
  \/ CycleStart(MaxSleeps, PlainTargets, SleepOptions)
  \/ ConsolidationPhase
  \/ PruningPhase
  \/ CommunitiesPhase

SpecPhases == Init /\ [][NextPhases]_vars

\* The same with deleteNode calls between the sleep() calls.
NextLifecycle == NextPhases \/ (cycle.phase = "idle" /\ DeleteNode)

SpecLifecycle == Init /\ [][NextLifecycle]_vars

\* The options of the tiered calls: clusters of one episode are consolidated.
TieredOptions == {[o EXCEPT !.minEpisodes = 1] : o \in SleepOptions}

\* Ingestion into the STM group between tiered sleep() calls, and the calls
\* phase by phase.
NextTiered ==
  \/ cycle.phase = "idle" /\ AddEpisodeIn({"stm"}, PlainExtractions)
  \/ CycleStart(MaxSleeps, TieredTargets, TieredOptions)
  \/ ConsolidationPhase
  \/ PruningPhase
  \/ CommunitiesPhase

SpecTiered == Init /\ [][NextTiered]_vars

----------------------------------------------------------------------------
(* Phase 2 statement by statement: each driver.executeQuery of mergeEntities
   is a statement the store commits on its own, and an await at which the
   statement can throw. *)

\* The first pair of the order, from position i on, that the greedy loop does
\* not skip; Len(order) + 1 when there is none.
nextPair(order, i, alreadyMerged) ==
  Min({j \in i..Len(order) :
         /\ order[j].canonicalUuid \notin alreadyMerged
         /\ order[j].duplicateUuid \notin alreadyMerged} \cup {Len(order) + 1})

\* The statement pc of mergeEntities.
mergeStatement(d, pc, canonicalUuid, duplicateUuid, g) ==
  IF pc = 1 THEN mergeOutgoing(d, canonicalUuid, duplicateUuid, g)
  ELSE IF pc = 2 THEN mergeIncoming(d, canonicalUuid, duplicateUuid, g)
  ELSE IF pc = 3 THEN mergeMentions(d, canonicalUuid, duplicateUuid, g)
  ELSE deleteDuplicate(d, duplicateUuid)

\* Pruner.run up to its loop: the candidate pairs are fetched, scored and sorted.
PruningBegin ==
  /\ cycle.phase = "pruning"
  /\ \E order \in PrunerOrders(db, pruningTarget(cycle), cycle.options) :
       cycle' = [cycle EXCEPT !.phase = "merging",
                              !.order = order,
                              !.merge = [pc |-> 1, index |-> nextPair(order, 1, {}),
                                         groupId |-> pruningTarget(cycle),
                                         alreadyMerged |-> {}, merged |-> 0,
                                         before |-> db]]
  /\ UNCHANGED <<db, nextUuid, now, ingested, deleted, slept, lastOp, concVars,
                 schedVars, applied>>

\* The next statement of Pruner.run: a statement of mergeEntities for the pair
\* at hand, or pruneOrphanedEdges and the return when no pair is left.
MergeStep ==
  /\ cycle.phase = "merging"
  /\ LET m == cycle.merge
     IN IF m.index > Len(cycle.order)
        THEN \E r \in {pruneOrphanedEdges(db, m.groupId)} :
               /\ db' = r.db
               /\ cycle' = [cycle EXCEPT
                              !.phase = SleepPhaseAfter("pruning"),
                              !.done = Append(@, "pruning"),
                              !.report.phase2Pruning =
                                 [entitiesMerged |-> m.merged, edgesPruned |-> r.total],
                              !.merge = NoMerge]
        ELSE \E d \in {mergeStatement(db, m.pc, cycle.order[m.index].canonicalUuid,
                                       cycle.order[m.index].duplicateUuid, m.groupId)} :
               /\ db' = d
               /\ cycle' =
                    IF m.pc < 4 THEN [cycle EXCEPT !.merge.pc = m.pc + 1]
                    ELSE LET merged == m.alreadyMerged
                                         \cup {cycle.order[m.index].duplicateUuid}
                         IN [cycle EXCEPT
                               !.merge = [pc |-> 1,
                                          index |-> nextPair(cycle.order, m.index + 1,
                                                             merged),
                                          groupId |-> m.groupId,
                                          alreadyMerged |-> merged,
                                          merged |-> m.merged + 1,
                                          before |-> d]]
  /\ UNCHANGED <<nextUuid, now, ingested, deleted, slept, lastOp, concVars, schedVars,
                 applied>>

\* The statement at hand throws: the exception leaves mergeEntities, run() and
\* sleep(); the statements before it stay committed.
MergeFails ==
  /\ cycle.phase = "merging"
  /\ cycle.merge.index <= Len(cycle.order)
  /\ cycle' = [IdleCycle EXCEPT !.threw = TRUE, !.order = cycle.order,
                                !.merge = cycle.merge]
  /\ lastOp' = Op("mergeFailed")
  /\ UNCHANGED <<db, nextUuid, now, ingested, deleted, slept, concVars, schedVars,
                 applied>>

\* The options of a cycle that writes.
WritingOptions == {o \in SleepOptions : ~ o.dryRun}

\* Ingestion and sleep cycles whose Phase 2 runs statement by statement.
NextMerge ==
  \/ cycle.phase = "idle" /\ AddEpisodeIn(SleepTargets, PlainExtractions)
  \/ CycleStart(MaxSleeps, PlainTargets, WritingOptions)
  \/ ConsolidationPhase
  \/ PruningBegin
  \/ MergeStep
  \/ MergeFails
  \/ CommunitiesPhase

SpecMerge == Init /\ [][NextMerge]_vars

----------------------------------------------------------------------------
(* Sleep cycles on a group in which three names contain one another, so that
   the candidate pairs of Phase 2 share entities. *)

ChainNames == {NameA, NameAl, NameAlS}

\* Extractions of confident entities of different names, the shorter name
\* first, each with its own summary text, and no relation.
ChainExtractions ==
  {x \in [entities : SeqsUpTo([name : ChainNames, summary : Summaries,
                               confidence : {Max(Confidences)}], MaxExtracted),
          relations : {<<>>}] :
     \A i, j \in 1..Len(x.entities) :
       i < j => Len(x.entities[i].name) < Len(x.entities[j].name)}

\* The pruning options: the default similarity threshold and a lower one.
ChainOptions == {[o EXCEPT !.similarityThreshold = t] : o \in SleepOptions, t \in {70, DEFAULT_SIMILARITY_THRESHOLD}}

NextChain ==
  \/ cycle.phase = "idle" /\ AddEpisodeIn(SleepTargets, ChainExtractions)
  \/ CycleStart(MaxSleeps, PlainTargets, ChainOptions)
  \/ ConsolidationPhase
  \/ PruningPhase
  \/ CommunitiesPhase

SpecChain == Init /\ [][NextChain]_vars

----------------------------------------------------------------------------
(* The pure functions of the program, applied to arguments drawn when the
   behaviour starts. *)

\* The arguments: two times for retroactiveDays; for runLouvain the entity
\* rows, of distinct uuids, and the edge rows, which may name any uuid, twice
\* the same pair or a self-loop.
Arguments ==
  [createdAt : 0..MaxClock, validAt : 0..MaxClock,
   entities : {q \in SeqsUpTo(1..MaxNodes, MaxNodes) :
                 \A i, j \in 1..Len(q) : i # j => q[i] # q[j]},
   edges : SeqsUpTo([source : 1..MaxNodes, target : 1..MaxNodes], MaxEdgeRows)]

\* addEpisode computes retroactiveDays from createdAt and validAt.
ApplyRetroactiveDays ==
  /\ applied.fn = "none"
  /\ applied' = [applied EXCEPT !.fn = "retroactiveDays",
                                !.days = retroactiveDays(applied.createdAt,
                                                         applied.validAt)]
  /\ UNCHANGED <<graphVars, concVars, schedVars, cycle>>

\* CommunityBuilder.run calls runLouvain on the rows of its two queries.
ApplyLouvain ==
  /\ applied.fn = "none"
  /\ applied' = [applied EXCEPT !.fn = "runLouvain",
                                !.assignments = runLouvain(applied.entities,
                                                           applied.edges)]
  /\ UNCHANGED <<graphVars, concVars, schedVars, cycle>>

NextPure == ApplyRetroactiveDays \/ ApplyLouvain

SpecPure == (\E a \in Arguments : Started(a)) /\ [][NextPure]_vars

----------------------------------------------------------------------------
(* runLouvain pass by pass: a step is one run of the body of while (improved). *)

\* runLouvain up to its loop: the adjacency, the singleton assignments, and
\* the return when no edge counts.
LouvainBegin ==
  /\ applied.fn = "none"
  /\ applied' = [applied EXCEPT
                   !.fn = IF Counted(applied.entities, applied.edges) = {}
                          THEN "runLouvain" ELSE "while",
                   !.assignments = [u \in Range(applied.entities) |-> u],
                   !.commDeg = [u \in Range(applied.entities) |->
                                  LouvainDegree(applied.entities, applied.edges, u)]]
  /\ UNCHANGED <<graphVars, concVars, schedVars, cycle>>

\* One pass over all the entities; the loop is left when the pass moved none.
LouvainPassStep ==
  /\ applied.fn = "while"
  /\ \E after \in {LouvainPass(applied.entities, applied.edges,
                                Cardinality(Counted(applied.entities, applied.edges)),
                                [assignments |-> applied.assignments,
                                 commDeg |-> applied.commDeg, improved |-> FALSE], 1)} :
       applied' = [applied EXCEPT
                     !.fn = IF after.improved THEN "while" ELSE "runLouvain",
                     !.assignments = after.assignments,
                     !.commDeg = after.commDeg]
  /\ UNCHANGED <<graphVars, concVars, schedVars, cycle>>

NextLouvain == LouvainBegin \/ LouvainPassStep

\* The graphs runLouvain is given.
LouvainArguments == {a \in Arguments : a.createdAt = 0 /\ a.validAt = 0}

SpecLouvain == (\E a \in LouvainArguments : Started(a)) /\ [][NextLouvain]_vars

\* A call that has begun runs on: nothing but the loop itself can hold it up.
SpecLouvainFair == SpecLouvain /\ WF_vars(NextLouvain)

----------------------------------------------------------------------------
(* Step 6 of CommunityBuilder.run, applied to the communities Louvain found and
   to the rows of the existing communities. *)

\* valid: the communities of at least minCommunitySize members, which are
\* disjoint; existing: the rows of the Community nodes of the group, whose
\* member sets may overlap when an earlier run failed before its sweep.  The
\* uuid of an existing community is its position.
RebuildArguments ==
  [valid : {v \in SeqsUpTo({m \in SUBSET (1..MaxMembers) :
                               Cardinality(m) >= MinCommunitySize}, 2) :
              \A i, j \in 1..Len(v) : i # j => v[i] \cap v[j] = {}},
   existing : {e \in SeqsUpTo([uuid : 1..MaxExisting,
                                memberUuids : SUBSET (1..MaxMembers) \ {{}}],
                               MaxExisting) :
                 \A i \in 1..Len(e) : e[i].uuid = i}]

\* The store that holds the existing communities.
ExistingStore(existing) ==
  [EmptyDb EXCEPT
     !.communities = {[uuid |-> existing[i].uuid, groupId |-> "stm",
                       memberEntityIds |-> existing[i].memberUuids,
                       memberCount |-> Cardinality(existing[i].memberUuids),
                       entityCountAtLastRebuild |-> MaxMembers] :
                        i \in 1..Len(existing)}]

\* The loop over validCommunities, no call failing, in a group that has one
\* entity more than when the existing communities were built.
ApplyRebuild ==
  /\ applied.fn = "none"
  /\ applied' = [applied EXCEPT
                   !.fn = "buildCommunities",
                   !.after = buildCommunities(
                               [db |-> ExistingStore(applied.existing),
                                next |-> Len(applied.existing) + 1],
                               applied.valid, 1, applied.existing, {}, "stm", FALSE,
                               MaxMembers + 1, 0, 0).db]
  /\ UNCHANGED <<graphVars, concVars, schedVars, cycle>>

NextRebuild == ApplyRebuild

SpecRebuild == (\E a \in RebuildArguments : Started(a)) /\ [][NextRebuild]_vars

----------------------------------------------------------------------------
(* Retrieval: the temporal re-ranking at the end of Graphzep.search.  Times are
   in units of the clock, alpha in tenths, a proximity in thousandths. *)

\* Math.exp(-q / 4) in thousandths, rounded down at each quarter.
RECURSIVE ExpNegQuarters(_)
ExpNegQuarters(q) == IF q <= 0 THEN 1000 ELSE (ExpNegQuarters(q - 1) * 779) \div 1000

Abs(x) == IF x < 0 THEN 0 - x ELSE x

\* proximityScore = Math.exp(-daysDelta / halfLifeDays), with daysDelta =
\* |validAt - queryTime| / 86_400_000.
proximityScore(validAt, queryTime, halfLifeDays) ==
  ExpNegQuarters((Abs(validAt - queryTime) * TickMinutes * 4) \div (1440 * halfLifeDays))

\* The score _applyTemporalWeighting gives a node, times 10000: the base score
\* of a node that is no Episodic, and baseScore * (1 + alpha * proximityScore *
\* contemporaneity) of an Episodic, where contemporaneity is Math.exp(-0 / 30)
\* = 1 as a node read from the store has no retroactiveDays.
adjustedScore(node, queryTime, alpha, halfLifeDays) ==
  IF node.label # "Episodic" THEN node.similarity * 10000
  ELSE node.similarity
         * (10000 + alpha * proximityScore(node.validAt, queryTime, halfLifeDays))

\* Array.prototype.sort((a, b) => b.score - a.score): descending and stable.
sortByScore(scored) ==
  LET n == Len(scored)
      p == CHOOSE q \in [1..n -> 1..n] :
             \A i, j \in 1..n :
               i < j => \/ scored[q[i]].score > scored[q[j]].score
                        \/ /\ scored[q[i]].score = scored[q[j]].score
                           /\ q[i] < q[j]
  IN [i \in 1..n |-> scored[p[i]]]

\* The nodes in the order of their base scores: no re-ranking.
applyTemporalWeightingByBase(nodes, queryTime, alpha, halfLifeDays) ==
  LET sorted == sortByScore([i \in 1..Len(nodes) |->
                               [node |-> nodes[i], score |-> nodes[i].similarity]])
  IN [i \in 1..Len(nodes) |-> sorted[i].node.uuid]

\* Graphzep._applyTemporalWeighting: the uuids of the nodes, re-ranked.
applyTemporalWeighting(nodes, queryTime, alpha, halfLifeDays) ==
  LET sorted == sortByScore([i \in 1..Len(nodes) |->
                               [node |-> nodes[i],
                                score |-> adjustedScore(nodes[i], queryTime, alpha,
                                                        halfLifeDays)]])
  IN [i \in 1..Len(nodes) |-> sorted[i].node.uuid]

\* The base similarity is a dot product of two embeddings: of any sign.
Similarities == {0 - 1, 0, 1}
\* temporalAlpha in tenths (0.3 when not given) and halfLifeDays.
Alphas == {0, 3}
HalfLives == {1, 2}

\* The rows of the similarity query of search, ORDER BY similarity DESC (rows
\* of equal similarity in any order), and the re-ranking parameters.  The uuid
\* of a row is its position.
SearchArguments ==
  [results : {q \in SeqsUpTo([label : {"Episodic"}, validAt : 0..MaxClock,
                               similarity : Similarities]
                              \cup [label : {"Entity"}, validAt : {0},
                                    similarity : Similarities], MaxResults) :
                \A i \in 1..Len(q) - 1 : q[i].similarity >= q[i + 1].similarity},
   queryTime : 0..MaxClock, alpha : Alphas, halfLifeDays : HalfLives]

\* search with queryTime set, from the rows of the similarity query on.
ApplySearch ==
  /\ applied.fn = "none"
  /\ applied' = [applied EXCEPT
                   !.fn = "search",
                   !.ranked = applyTemporalWeighting(
                                [i \in 1..Len(applied.results) |->
                                   [uuid |-> i, label |-> applied.results[i].label,
                                    validAt |-> applied.results[i].validAt,
                                    similarity |-> applied.results[i].similarity]],
                                applied.queryTime, applied.alpha, applied.halfLifeDays)]
  /\ UNCHANGED <<graphVars, concVars, schedVars, cycle>>

NextSearch == ApplySearch

SpecSearch == (\E a \in SearchArguments : Started(a)) /\ [][NextSearch]_vars

----------------------------------------------------------------------------
(* Properties of the graph *)

\* C1: after any sequence of addEpisode calls and sleep cycles run one at a time,
\* no two Entity nodes of a group have the same name.
EntityNamesUnique ==
  \A a, b \in db.entities : (a.groupId = b.groupId /\ a.name = b.name) => a = b

\* A name was extracted twice and found the second time, and a sleep cycle has
\* merged two entities of the group.
EntityNamesUniqueWitness ==
  /\ \E e \in db.entities : Cardinality({m \in db.mentions : m.tgt = e.uuid}) = 2
  /\ lastOp.op = "sleep" /\ ~ lastOp.options.dryRun
  /\ lastOp.report.phase2Pruning.entitiesMerged = 1

\* C2: after addEpisode calls and Phase 2 merges, no two RELATES_TO edges share
\* their source, their target and their name.
RelationsUnique ==
  \A a, b \in db.relates :
    (a.groupId = b.groupId /\ a.src = b.src /\ a.tgt = b.tgt /\ a.name = b.name)
      => a = b

\* C3: after addEpisode, deleteNode and Phase 2 merges, every RELATES_TO edge
\* joins two existing Entity nodes of one group and every MENTIONS edge joins an
\* existing Episodic node to an existing Entity node of the same group.
EdgesWellFormed ==
  /\ \A r \in db.relates :
       \E a, b \in db.entities :
         a.uuid = r.src /\ b.uuid = r.tgt /\ a.groupId = b.groupId
  /\ \A m \in db.mentions :
       \E ep \in db.episodes, e \in db.entities :
         ep.uuid = m.src /\ e.uuid = m.tgt /\ ep.groupId = e.groupId

\* A node that had edges has been deleted, a sleep cycle has merged two
\* entities, and edges of both kinds are left.
EdgesWellFormedWitness ==
  /\ deleted = 1
  /\ lastOp.op = "sleep" /\ lastOp.report.phase2Pruning.entitiesMerged = 1
  /\ ~ lastOp.options.dryRun
  /\ db.relates # {} /\ db.mentions # {}
  /\ Cardinality(db.mentions) < 3

\* C4: every RELATES_TO edge with an invalidAt has invalidAt >= validAt, after
\* any sequence of current and historical assertions.
InvalidNotBeforeValid ==
  \A r \in db.relates : \A t \in r.invalidAt : t >= r.validAt

\* C8: a sleep cycle run right after a successful one, with cooldown 0 and no
\* ingestion between the two, refreshes no entity and merges none.
RerunChangesNothing ==
  [][(/\ lastOp.op = "sleep" /\ lastOp.clean /\ ~ lastOp.options.dryRun
      /\ lastOp'.op = "sleep" /\ lastOp'.clean /\ ~ lastOp'.options.dryRun
      /\ lastOp'.group = lastOp.group
      /\ lastOp'.options.cooldownMinutes = 0)
     => /\ lastOp'.report.phase1Consolidation.entitiesRefreshed = 0
        /\ lastOp'.report.phase2Pruning.entitiesMerged = 0]_vars

\* C9: a sleep cycle with dryRun set leaves the graph as it found it.
DryRunLeavesGraph ==
  [][(lastOp'.op = "sleep" /\ lastOp'.options.dryRun) => db' = db]_vars

\* A dry run has reported an entity it would refresh and a pair it would merge.
DryRunLeavesGraphWitness ==
  /\ lastOp.op = "sleep" /\ lastOp.options.dryRun
  /\ lastOp.report.phase1Consolidation.entitiesRefreshed >= 1
  /\ lastOp.report.phase2Pruning.entitiesMerged >= 1

\* The counts of a report.
Counts(report) ==
  <<report.phase1Consolidation.entitiesRefreshed,
    report.phase1Consolidation.episodesConsolidated,
    report.phase2Pruning.entitiesMerged,
    report.phase2Pruning.edgesPruned,
    report.phase3Communities.communitiesBuilt,
    report.phase3Communities.communitiesRemoved>>

\* C10: the counts a dry run reports are the counts of the sleep cycle run next
\* on the same graph with the same options and dryRun off.
DryRunCountsMatch ==
  [][(/\ lastOp.op = "sleep" /\ lastOp.clean /\ lastOp.options.dryRun
      /\ lastOp'.op = "sleep" /\ lastOp'.clean /\ ~ lastOp'.options.dryRun
      /\ lastOp'.group = lastOp.group
      /\ lastOp'.options = [lastOp.options EXCEPT !.dryRun = FALSE])
     => Counts(lastOp'.report) = Counts(lastOp.report)]_vars

\* C5: when two addEpisode calls on one group run concurrently and both extract
\* the same name, one Entity node at most has that name once both have returned.
ConcurrentNamesUnique ==
  (\A p \in Procs : calls[p].pc = "done") => EntityNamesUnique

\* C6: whatever the interleaving of startAutoSleep, stopAutoSleep, timeouts and
\* direct sleep() calls, one sleep run at most is in flight.
OneRunInFlight == Cardinality(runs) <= 1

\* C7: once stopAutoSleep has returned, and until startAutoSleep is called, no
\* timeout is pending and none is kept, also when a scheduled run was in flight
\* at the call.
StopCancels == stopped => (timers = {} /\ autoSleepTimer = {})

CallbacksIsolated ==
  [][settled'.n > settled.n
     => /\ autoSleepTimer' # {} /\ autoSleepTimer' \subseteq timers'
        /\ autoSleepTimer' # autoSleepTimer]_vars

----------------------------------------------------------------------------
(* Properties of addEpisode, statement by statement *)

\* C11: when a call that returned is repeated on the same content and the
\* extraction is the same, the repeated call adds one Episodic node and no
\* Entity node.
RepeatAddsOneEpisode ==
  (step.pc = "done" /\ step.retryOf = "done")
    => /\ Cardinality(db.episodes) = Cardinality(step.begin.episodes) + 1
       /\ {e.uuid : e \in db.entities} = {e.uuid : e \in step.begin.entities}

\* A call that created two entities and a relation has been repeated.
RepeatAddsOneEpisodeWitness ==
  /\ step.pc = "done" /\ step.retryOf = "done"
  /\ Len(step.nodes) = 2 /\ db.relates # {}

\* C12: when a call threw after its episode was saved and is retried, the graph
\* after the retry has as many nodes and edges of each kind as the graph one
\* uninterrupted call would have left.
RetrySameAsOneRun ==
  (step.pc = "done" /\ step.retryOf = "failed")
    => LET one == addEpisode([db |-> step.origin, next |-> nextUuid],
                             step.g, now, step.x, now).db
       IN /\ Cardinality(db.episodes) = Cardinality(one.episodes)
          /\ Cardinality(db.entities) = Cardinality(one.entities)
          /\ Cardinality(db.mentions) = Cardinality(one.mentions)
          /\ Cardinality(db.relates) = Cardinality(one.relates)

\* C13: every MENTIONS edge a step writes starts at an Episodic node that was in
\* the store before the step, and every RELATES_TO edge a step writes joins
\* entities that the call's episode already mentioned before the step.
StepsInOrder ==
  [][/\ \A m \in db'.mentions \ db.mentions : HasEpisode(db, m.src)
     /\ \A r \in db'.relates \ db.relates :
          \A u \in {r.src, r.tgt} :
            \E m \in db.mentions : m.src = step.episode /\ m.tgt = u]_vars

\* A call has linked its episode to two entities and has then written a
\* relation between them.
StepsInOrderWitness ==
  /\ step.pc = "done"
  /\ \E r \in db.relates : Includes(r.episodes, step.episode)
  /\ Cardinality({m \in db.mentions : m.src = step.episode}) = 2

\* C14: when the extraction, the summary merge or the embedder throws after
\* the episode was saved, the store is left as it was, with the episode node and
\* every entity node the call has saved, and the call writes nothing more.
FailureKeepsNodes ==
  [][/\ (step'.pc = "failed" /\ step.pc # "failed")
          => /\ db' = db
             /\ HasEpisode(db', step.episode)
             /\ \A i \in 1..Len(step.nodes) : HasEntity(db', step.nodes[i].uuid)
     /\ (step.pc = "failed" /\ step'.started = step.started) => db' = db]_vars

\* A call has thrown after it saved its episode and an entity.
FailureKeepsNodesWitness ==
  /\ step.pc = "failed" /\ Len(step.nodes) >= 1
  /\ HasEpisode(db, step.episode) /\ HasEntity(db, step.nodes[1].uuid)

\* C15: processing a negated relation that has no active positive edge between
\* its entities leaves the store as it was.
NegationWithoutCounterpart ==
  [][(/\ step.pc = "relations"
      /\ step.x.relations[step.i].isNegated
      /\ ActiveCounterparts(db, step, step.x.relations[step.i]) = {})
     => db' = db]_vars

\* A call whose extraction held a negated relation has returned and the store
\* holds no RELATES_TO edge.
NegationWithoutCounterpartWitness ==
  /\ step.pc = "done" /\ db.relates = {}
  /\ \E i \in 1..Len(step.x.relations) : step.x.relations[i].isNegated

\* C16: processing a negated relation that has an active positive edge deletes
\* no edge and creates none, and leaves that edge as it was but for disputedBy,
\* which keeps its elements and holds the new episode's uuid.
NegationKeepsEdge ==
  [][(/\ step.pc = "relations"
      /\ step.x.relations[step.i].isNegated
      /\ ActiveCounterparts(db, step, step.x.relations[step.i]) # {})
     => /\ {r.uuid : r \in db'.relates} = {r.uuid : r \in db.relates}
        /\ Cardinality(db'.relates) = Cardinality(db.relates)
        /\ \E e \in ActiveCounterparts(db, step, step.x.relations[step.i]) :
             \E f \in db'.relates :
               /\ f = [e EXCEPT !.disputedBy = f.disputedBy]
               /\ Includes(f.disputedBy, step.episode)
               /\ Range(e.disputedBy) \subseteq Range(f.disputedBy)]_vars

\* An active edge is disputed by the episode of the call that has returned.
NegationKeepsEdgeWitness ==
  /\ step.pc = "done"
  /\ \E r \in db.relates : r.invalidAt = {} /\ Includes(r.disputedBy, step.episode)

\* C17: when a call returns, the disputedBy stored on its episode holds every
\* episode of every edge that one of its negated relations matched.
EpisodeDisputedByComplete ==
  step.pc = "done"
    => step.disputes \subseteq
         Range((CHOOSE n \in db.episodes : n.uuid = step.episode).disputedBy)

\* C18: processing an asserted historical relation between two processed
\* entities that no edge of that name joins adds exactly one RELATES_TO edge,
\* between them, whose invalidAt is the time of the call.
HistoricalCreatesInvalidEdge ==
  [][(/\ step.pc = "relations"
      /\ ~ step.x.relations[step.i].isNegated
      /\ step.x.relations[step.i].temporalValidity = "historical"
      /\ step.x.relations[step.i].confidence >= RELATION_CONFIDENCE_THRESHOLD
      /\ \E a \in entityMapGet(step.nodes, step.x.relations[step.i].sourceName),
            b \in entityMapGet(step.nodes, step.x.relations[step.i].targetName) :
            ~ \E r \in db.relates :
                /\ r.src = a.uuid /\ r.tgt = b.uuid
                /\ r.name = step.x.relations[step.i].relationName)
     => \E r \in db'.relates \ db.relates :
          /\ db'.relates = db.relates \cup {r}
          /\ r.invalidAt = {step.t}
          /\ r.name = step.x.relations[step.i].relationName
          /\ \E a \in entityMapGet(step.nodes, step.x.relations[step.i].sourceName) :
               r.src = a.uuid
          /\ \E b \in entityMapGet(step.nodes, step.x.relations[step.i].targetName) :
               r.tgt = b.uuid]_vars

\* The first call, whose one relation was historical, has returned and the
\* store holds one edge, invalid since the time of the call.
HistoricalCreatesInvalidEdgeWitness ==
  /\ step.pc = "done" /\ step.started = 1
  /\ Len(step.x.relations) = 1 /\ step.x.relations[1].temporalValidity = "historical"
  /\ \E r \in db.relates : db.relates = {r} /\ r.invalidAt = {step.t}

----------------------------------------------------------------------------
(* Properties of the sleep cycle, phase by phase *)

\* C21: within one sleep() call the phases run one after the other: the call
\* is in Phase 2 only when Phase 1 has returned, in Phase 3 only when Phase 1
\* and then Phase 2 have returned, and a step that writes to the store during
\* the call is the step of the phase the call is in.
PhasesSequential ==
  [][/\ cycle.phase = "consolidation" => cycle.done = <<>>
     /\ cycle.phase = "pruning" => cycle.done = <<"consolidation">>
     /\ cycle.phase = "communities" => cycle.done = <<"consolidation", "pruning">>
     /\ (cycle.phase # "idle" /\ db' # db) => cycle'.done = Append(cycle.done, cycle.phase)
    ]_vars

\* A call is in Phase 3 after Phase 1 refreshed an entity and Phase 2 merged
\* a pair.
PhasesSequentialWitness ==
  /\ cycle.phase = "communities"
  /\ ~ cycle.options.dryRun
  /\ cycle.report.phase1Consolidation.entitiesRefreshed > 0
  /\ cycle.report.phase2Pruning.entitiesMerged > 0

\* C22, as stated: after Phase 1 the entity and every episode of a cluster
\* whose LLM or embedder call failed are as they were before.
FailedClusterUntouched ==
  [][cycle.phase = "consolidation"
     => \A c \in cycle'.clusters :
          (\/ cycle'.outcome[c.uuid] = "llmFails"
           \/ (cycle'.outcome[c.uuid] = "embedFails" /\ ~ cycle.options.dryRun))
          => /\ {e \in db'.entities : e.uuid = c.uuid} = {e \in db.entities : e.uuid = c.uuid}
             /\ {n \in db'.episodes : n.uuid \in c.episodeUuids}
                = {n \in db.episodes : n.uuid \in c.episodeUuids}]_vars

\* C22, amended: Phase 1 returns whatever calls fail; the entity of a failed
\* cluster is as it was before, and so are those of its episodes that belong to
\* no cluster that was processed; the entity of every other cluster has the new
\* summary and every episode of such a cluster is marked consolidated (nothing
\* is written in a dry run).
FailedClusterSkipped ==
  [][cycle.phase = "consolidation"
     => LET failed(c) == \/ cycle'.outcome[c.uuid] = "llmFails"
                         \/ (cycle'.outcome[c.uuid] = "embedFails"
                             /\ ~ cycle.options.dryRun)
            processed == UNION {c.episodeUuids : c \in {k \in cycle'.clusters : ~ failed(k)}}
        IN /\ cycle'.phase = "pruning"
           /\ cycle.options.dryRun => db' = db
           /\ \A c \in cycle'.clusters :
                IF failed(c)
                THEN /\ {e \in db'.entities : e.uuid = c.uuid}
                        = {e \in db.entities : e.uuid = c.uuid}
                     /\ {n \in db'.episodes : n.uuid \in c.episodeUuids \ processed}
                        = {n \in db.episodes : n.uuid \in c.episodeUuids \ processed}
                ELSE ~ cycle.options.dryRun
                     => /\ \A e \in db'.entities :
                             e.uuid = c.uuid => /\ e.summary = cycle'.newSummary
                                                /\ e.consolidatedAt = {now}
                        /\ \A n \in db'.episodes :
                             n.uuid \in c.episodeUuids => n.consolidatedAt = {now}]_vars

\* Phase 1 has returned from a run in which the call for one cluster failed
\* and another cluster was processed.
FailedClusterSkippedWitness ==
  /\ cycle.phase = "pruning"
  /\ ~ cycle.options.dryRun
  /\ \E a, b \in cycle.clusters :
       /\ cycle.outcome[a.uuid] # "ok" /\ cycle.outcome[b.uuid] = "ok"
       /\ \E e \in db.entities : e.uuid = a.uuid /\ e.consolidatedAt = {}
       /\ \E e \in db.entities : e.uuid = b.uuid /\ e.consolidatedAt # {}

\* C23: Phase 3 returns, whatever LLM or embedder call fails for a community.
CommunityFailureSkipped ==
  [][cycle.phase = "communities" => ~ cycle'.threw]_vars

\* C24: a Phase 3 run that finds fewer new entities than rebuildThreshold since
\* the last rebuild returns skipped = true and leaves the store as it was.
ThresholdSkipWritesNothing ==
  [][(/\ cycle.phase = "communities"
      /\ LET counts == {c.entityCountAtLastRebuild :
                          c \in {k \in db.communities : k.groupId = cycle.groupId}}
             lastCount == IF counts = {} THEN 0 ELSE Max(counts)
             currentCount == Cardinality({e \in db.entities : e.groupId = cycle.groupId})
         IN currentCount - lastCount < cycle.options.rebuildThreshold)
     => /\ cycle'.report.phase3Communities.skipped
        /\ ~ cycle'.threw
        /\ db' = db
        /\ nextUuid' = nextUuid]_vars

\* A call that wrote to the store in no dry run has returned from a Phase 3
\* that was skipped although the graph has the minimum size: communities of an
\* earlier rebuild are in the store.
ThresholdSkipWritesNothingWitness ==
  /\ cycle.phase = "idle" /\ cycle.done = <<"consolidation", "pruning", "communities">>
  /\ ~ cycle.options.dryRun
  /\ cycle.report.phase3Communities.skipped
  /\ cycle.report.phase3Communities.entityCount >= cycle.options.minGraphSize
  /\ \E c \in db.communities : c.groupId = cycle.groupId

NodesDeletedByMergeOnly ==
  [][(deleted' = deleted /\ NodeUuids(db) \ NodeUuids(db') # {})
     => cycle.phase = "pruning"]_vars

\* C26, amended: a step that is no deleteNode call removes no Episodic node;
\* it removes an Entity node only as the duplicate of a pair Phase 2 merges,
\* and a Community node only in Phase 3, from the group Phase 3 rebuilds.
NodesDeletedByMergeOrRebuild ==
  [][deleted' = deleted
     => /\ \A n \in db.episodes : HasEpisode(db', n.uuid)
        /\ \A e \in db.entities :
             ~ HasEntity(db', e.uuid)
             => /\ cycle.phase = "pruning"
                /\ \E pair \in Range(cycle'.order) : pair.duplicateUuid = e.uuid
        /\ \A c \in db.communities :
             (~ \E k \in db'.communities : k.uuid = c.uuid)
             => cycle.phase = "communities" /\ c.groupId = cycle.groupId]_vars

\* Phase 3 has removed a stale community in a call whose Phase 2 had merged a
\* pair, and the episodes are in the store.
NodesDeletedByMergeOrRebuildWitness ==
  /\ cycle.phase = "idle"
  /\ cycle.report.phase3Communities.communitiesRemoved > 0
  /\ ~ cycle.options.dryRun
  /\ Cardinality(db.episodes) = MaxEpisodes

----------------------------------------------------------------------------
(* Properties of the tiered sleep cycle *)

\* C27: Phase 2 of a tiered call leaves every node and every edge of the STM
\* group as it was.
TieredPruningLeavesStm ==
  [][(cycle.phase = "pruning" /\ cycle.tiered)
     => LET stm == cycle.groupId
            ofStm(d, r) == \/ r.groupId = stm
                           \/ IsEntityOf(d, r.src, stm) \/ IsEntityOf(d, r.tgt, stm)
                           \/ IsEpisodeOf(d, r.src, stm)
        IN /\ {e \in db'.entities : e.groupId = stm} = {e \in db.entities : e.groupId = stm}
           /\ {n \in db'.episodes : n.groupId = stm} = {n \in db.episodes : n.groupId = stm}
           /\ {r \in db'.relates : ofStm(db', r)} = {r \in db.relates : ofStm(db, r)}
           /\ {r \in db'.mentions : ofStm(db', r)} = {r \in db.mentions : ofStm(db, r)}]_vars

\* Phase 2 of a tiered call has merged a pair of LTM entities while the STM
\* group holds two entities of which one name contains the other.
TieredPruningLeavesStmWitness ==
  /\ cycle.phase = "communities" /\ cycle.tiered
  /\ ~ cycle.options.dryRun
  /\ cycle.report.phase2Pruning.entitiesMerged > 0
  /\ \E a, b \in db.entities :
       /\ a.groupId = cycle.groupId /\ b.groupId = cycle.groupId
       /\ a.name = NameAl /\ b.name = NameAlS

----------------------------------------------------------------------------
(* Properties of the pure functions *)

\* C29: the retroactiveDays of an episode is the number of whole days from
\* validAt to createdAt, and 0 when validAt is the later.
RetroactiveDaysIsFloor ==
  applied.fn = "retroactiveDays"
  => applied.days = Max({0, ((applied.createdAt - applied.validAt) * TickMinutes) \div 1440})

\* C30: runLouvain on rows of which no edge counts (no row at all, or rows
\* that are self-loops or name an unknown entity) labels every entity with
\* its own uuid, so that no two entities share a community.
EdgelessSingletons ==
  (applied.fn = "runLouvain" /\ Counted(applied.entities, applied.edges) = {})
  => /\ DOMAIN applied.assignments = Range(applied.entities)
     /\ \A u \in Range(applied.entities) : applied.assignments[u] = u

\* runLouvain has returned for three entities and no edge row.
EdgelessSingletonsWitness ==
  /\ applied.fn = "runLouvain"
  /\ Len(applied.entities) = MaxNodes
  /\ applied.edges = <<>>
  /\ Cardinality({applied.assignments[u] : u \in Range(applied.entities)}) = MaxNodes

----------------------------------------------------------------------------
(* Properties of retrieval *)

\* The position of the node u in the list search returns.
RankOf(u) == CHOOSE i \in 1..Len(applied.ranked) : applied.ranked[i] = u

Distance(i) == Abs(applied.results[i].validAt - applied.queryTime)

----------------------------------------------------------------------------
(* Properties of Phase 2, statement by statement *)

\* C32: the merge of a pair is atomic: while the statements of the merge run,
\* and after one of them has failed, the store holds either none or all of
\* the effects of the merge.
MergeAtomic ==
  LET m == cycle.merge
  IN (/\ m.index \in 1..Len(cycle.order)
      /\ cycle.phase = "merging" \/ lastOp.op = "mergeFailed")
     => db \in {m.before,
                mergeEntities(m.before, cycle.order[m.index].canonicalUuid,
                              cycle.order[m.index].duplicateUuid, m.groupId)}

----------------------------------------------------------------------------
(* Properties of the greedy merge *)

\* The positions of the pairs of order that are merged when a pair is skipped
\* exactly if an entity of it was the duplicate of a pair merged before it.
GreedyMerged(order) ==
  CHOOSE M \in SUBSET (1..Len(order)) :
    \A i \in 1..Len(order) :
      i \in M <=> \A j \in M :
                    j < i => order[j].duplicateUuid
                               \notin {order[i].canonicalUuid, order[i].duplicateUuid}

\* C33: Phase 2 takes the scored pairs in descending similarity, merges a
\* pair unless one of its two entities has been merged away by an earlier
\* pair of the cycle, and skips it otherwise: the entities that disappear are
\* the duplicates of the pairs not skipped, and the report counts those pairs.
GreedyDescendingSkipsMerged ==
  [][PruningPhase =>
       LET order == cycle'.order
           M == GreedyMerged(order)
       IN /\ \A i, j \in 1..Len(order) :
               i < j => SimGE(order[i].similarity, order[j].similarity)
          /\ cycle'.report.phase2Pruning.entitiesMerged = Cardinality(M)
          /\ {e.uuid : e \in db.entities} \ {e.uuid : e \in db'.entities}
               = IF cycle.options.dryRun THEN {}
                 ELSE {order[i].duplicateUuid : i \in M}]_vars

\* Phase 2 has run on three entities whose names contain one another: it
\* merged two pairs, of different similarities, and skipped the third.
GreedyDescendingSkipsMergedWitness ==
  /\ cycle.phase = "communities"
  /\ ~ cycle.options.dryRun
  /\ Len(cycle.order) = 3
  /\ ~ SimGE(cycle.order[3].similarity, cycle.order[1].similarity)
  /\ cycle.report.phase2Pruning.entitiesMerged = 2
  /\ Cardinality({e \in db.entities : e.groupId = cycle.groupId}) = 1

----------------------------------------------------------------------------
(* Properties of runLouvain, pass by pass *)

\* C34: on every entity graph the local optimisation of runLouvain comes to
\* a full pass that moves no entity, and the function returns.
LouvainTerminates == <>(applied.fn = "runLouvain")

\* runLouvain has returned after passes that moved entities: two of three
\* entities share a community.
LouvainTerminatesWitness ==
  /\ applied.fn = "runLouvain"
  /\ Len(applied.entities) = MaxNodes
  /\ Cardinality({applied.assignments[u] : u \in Range(applied.entities)}) < MaxNodes

----------------------------------------------------------------------------
(* Properties of the community rebuild *)

\* The uuids of the communities written with the members of valid[i].
UuidsOf(i) ==
  {c.uuid : c \in {k \in applied.after.communities :
                     /\ k.memberEntityIds = applied.valid[i]
                     /\ k.entityCountAtLastRebuild = MaxMembers + 1}}

\* The Jaccard overlap of valid[i] and existing[k] is at least that of
\* valid[i] and existing[l].
JaccardGE(i, k, l) ==
  LET a == applied.valid[i]
      x == applied.existing[k].memberUuids
      y == applied.existing[l].memberUuids
  IN Cardinality(a \cap x) * Cardinality(a \cup y)
       >= Cardinality(a \cap y) * Cardinality(a \cup x)

\* The existing communities of maximum overlap with valid[i], when that
\* overlap is at least 0.7.
BestExisting(i) ==
  {k \in 1..Len(applied.existing) :
     /\ \A l \in 1..Len(applied.existing) : JaccardGE(i, k, l)
     /\ 10 * Cardinality(applied.valid[i] \cap applied.existing[k].memberUuids)
          >= 7 * Cardinality(applied.valid[i] \cup applied.existing[k].memberUuids)}

\* C35: a new community takes the uuid of an existing community of maximum
\* Jaccard overlap when that overlap is at least 0.7 and no community built
\* before it in the cycle took that uuid, and a uuid no existing community has
\* otherwise; no uuid is given to two communities of the cycle.
ReuseOnlyBestUnclaimed ==
  applied.fn = "buildCommunities"
  => /\ \A i \in 1..Len(applied.valid) :
          LET claimed == UNION {UuidsOf(j) : j \in 1..(i - 1)}
              free == {applied.existing[k].uuid : k \in BestExisting(i)} \ claimed
          IN /\ Cardinality(UuidsOf(i)) = 1
             /\ IF free # {} THEN UuidsOf(i) \subseteq free
                ELSE UuidsOf(i) \cap {applied.existing[k].uuid :
                                         k \in 1..Len(applied.existing)} = {}
     /\ \A i, j \in 1..Len(applied.valid) : i # j => UuidsOf(i) \cap UuidsOf(j) = {}

\* Two communities were built over two existing ones: the first took the uuid
\* of an existing community it overlaps by 3/4, the second got a new uuid.
ReuseOnlyBestUnclaimedWitness ==
  /\ applied.fn = "buildCommunities"
  /\ Len(applied.existing) = MaxExisting
  /\ \E i \in 1..Len(applied.valid) :
       /\ UuidsOf(i) \subseteq 1..MaxExisting
       /\ \E k \in BestExisting(i) : applied.existing[k].memberUuids # applied.valid[i]
  /\ \E i \in 1..Len(applied.valid) : UuidsOf(i) \cap (1..MaxExisting) = {}

----------------------------------------------------------------------------
(* Properties of the accumulation of episodes on an edge *)

\* The RELATES_TO edges that assert Al KNOWS Bo in the group.
KnowsEdges ==
  {r \in db.relates :
     /\ r.name = "KNOWS"
     /\ \E a, b \in db.entities :
          /\ a.uuid = r.src /\ a.name = NameAl /\ a.groupId = "stm"
          /\ b.uuid = r.tgt /\ b.name = NameBo /\ b.groupId = "stm"}

\* The episodes of the calls that have returned.
ReturnedEpisodes ==
  {e.uuid : e \in db.episodes} \ (IF step.pc = "done" THEN {} ELSE {step.episode})

\* C36: when k episodes, one after the other, have each asserted the same
\* current relation between the same two entities, one RELATES_TO edge of
\* that name joins the two and its episodes list holds the k episode uuids,
\* each once.
EpisodesAccumulate ==
  ReturnedEpisodes # {}
  => \E r \in KnowsEdges :
       /\ KnowsEdges = {r}
       /\ Len(r.episodes) = Cardinality(Range(r.episodes))
       /\ ReturnedEpisodes \subseteq Range(r.episodes)
       /\ Range(r.episodes) \subseteq {e.uuid : e \in db.episodes}
       /\ step.pc = "done" => /\ Len(r.episodes) = step.started
                              /\ Range(r.episodes) = ReturnedEpisodes

\* Three episodes have asserted the relation and the edge lists the three.
EpisodesAccumulateWitness ==
  /\ step.pc = "done"
  /\ step.started = MaxRelationCalls
  /\ \E r \in KnowsEdges :
       /\ KnowsEdges = {r}
       /\ Len(r.episodes) = MaxRelationCalls
       /\ Range(r.episodes) = {e.uuid : e \in db.episodes}

----------------------------------------------------------------------------
(* Properties of historical assertions *)

\* The edge findExistingRelation returns for the relation the call is at.
ExistingEdgesAt(d) ==
  {r \in d.relates :
     /\ r.name = step.x.relations[step.i].relationName
     /\ \E a \in entityMapGet(step.nodes, step.x.relations[step.i].sourceName) :
          r.src = a.uuid
     /\ \E b \in entityMapGet(step.nodes, step.x.relations[step.i].targetName) :
          r.tgt = b.uuid}

\* C37: processing an asserted historical relation whose edge exists sets the
\* invalidAt of the edge to the time of the call when the edge has none, and
\* leaves the edge, and the whole store, as it is when the edge has one.
HistoricalSetsInvalidAtOnce ==
  [][(/\ step.pc = "relations"
      /\ ~ step.x.relations[step.i].isNegated
      /\ step.x.relations[step.i].temporalValidity = "historical"
      /\ step.x.relations[step.i].confidence >= RELATION_CONFIDENCE_THRESHOLD
      /\ ExistingEdgesAt(db) # {})
     => \A r \in ExistingEdgesAt(db) :
          IF r.invalidAt # {} THEN db' = db
          ELSE \E n \in ExistingEdgesAt(db') :
                 /\ n.uuid = r.uuid
                 /\ n.invalidAt = {step.t}
                 /\ n.episodes = r.episodes
                 /\ db'.relates \ {n} = db.relates \ {r}]_vars

\* A call has asserted as historical a relation whose edge an earlier call had
\* invalidated: the edge keeps the earlier time.
HistoricalSetsInvalidAtOnceWitness ==
  /\ step.pc = "done"
  /\ step.x.relations = <<[sourceName |-> NameAl, targetName |-> NameBo,
                            relationName |-> "KNOWS", confidence |-> 10,
                            isNegated |-> FALSE, temporalValidity |-> "historical"]>>
  /\ \E r \in KnowsEdges : \E t \in r.invalidAt : t < step.t

----------------------------------------------------------------------------
(* Properties of disputed edges *)

\* C38: no step takes an episode out of the disputedBy of an edge that stays
\* in the store.
DisputedByNeverShrinks ==
  [][\A r \in db.relates : \A n \in db'.relates :
       n.uuid = r.uuid => Range(r.disputedBy) \subseteq Range(n.disputedBy)]_vars

----------------------------------------------------------------------------
(* Properties of the auto-sleep schedule *)

\* C39: at most one timeout of the auto-sleep schedule is pending.
OneScheduleAlive == Cardinality(timers) <= 1

----------------------------------------------------------------------------
(* Properties of the Community nodes *)

\* The entities the HAS_MEMBER edges of a community lead to.
HasMemberTargets(c) == {h.tgt : h \in {e \in db.hasMember : e.src = c.uuid}}

\* C40: the memberEntityIds and memberCount of every Community node agree
\* with its HAS_MEMBER edges, and name entities that exist.
CommunityMembersAgree ==
  \A c \in db.communities :
    /\ c.memberEntityIds = HasMemberTargets(c)
    /\ c.memberCount = Cardinality(HasMemberTargets(c))
    /\ \A m \in c.memberEntityIds : HasEntity(db, m)

====
